---- MODULE Spec2Model ----
(***************************************************************************)
(* A model of cosmic-applibrary: the group filter engine and its          *)
(* mutations (src/src/app_group.rs), the drag-source widget               *)
(* (src/src/widgets/application.rs), the drop-target widget               *)
(* (src/src/widgets/group.rs) and the application's message handlers      *)
(* (src/src/app.rs).                                                       *)
(*                                                                         *)
(* Strings are sequences of character codes, so that to_lowercase,         *)
(* substring search and comparison are computed as the code computes them. *)
(***************************************************************************)
EXTENDS Integers, Sequences, FiniteSets, TLC

VARIABLES
    overflow_checks,      \* build profile: TRUE = `0usize - 1` panics, FALSE = it wraps
    panicked,             \* the process aborted on a panic
    groups,               \* AppLibraryConfig.groups (the user groups)
    lastOp,               \* the most recent call made on the configuration
    shown,                \* the list the most recent filtered() call returned
    dragging_state,       \* widgets/application.rs State.dragging_state
    accepted,             \* history: the action set of the last DndActionAccepted of this drag
    srcEvent,             \* the event the drag source processed last
    srcPublished,         \* what the drag source published while processing it
    drags,                \* history: the Pressed -> Dragging transitions since the last
                          \* None -> Pressed transition
    queue,                \* messages published by widgets, not yet handled by update()
    dnd_offer,            \* widgets/group.rs State.dnd_offer, one per group tile
    offerPhase,           \* the compositor's position in the current offer, and its number
    offerOf,              \* history: the offer whose events made each drop target handle it
    dstEvent,             \* the event the drop targets processed last
    dstPublished,         \* what each drop target published while processing it
    search_value,         \* CosmicAppLibrary.search_value
    cur_group,            \* CosmicAppLibrary.cur_group
    entry_path_input,     \* CosmicAppLibrary.entry_path_input (the displayed list)
    shownInput,           \* history: the search text the displayed list was computed from
    dnd_icon,             \* CosmicAppLibrary.dnd_icon
    dragged,              \* history: the entry and the group that StartDrag was sent for
    all_entries,          \* CosmicAppLibrary.all_entries
    duplicates,           \* CosmicAppLibrary.duplicates: the paths it has a source for
    offer_group,          \* CosmicAppLibrary.offer_group
    stored,               \* persistent storage (cosmic-config): the group list it holds, and
                          \* (history) the list handed to the last write_entry call
    waiting_for_filtered, \* CosmicAppLibrary.waiting_for_filtered
    inflight,             \* recomputation tasks dispatched and not yet delivered
    dispatched,           \* history: tasks dispatched by the last step
    lastMsg,              \* the message update() handled last
    changes,              \* how many more times the environment changes the search text
    active_surface,       \* CosmicAppLibrary.active_surface
    menu,                 \* CosmicAppLibrary.menu
    new_group,            \* CosmicAppLibrary.new_group
    group_to_delete,      \* CosmicAppLibrary.group_to_delete
    edit_name             \* CosmicAppLibrary.edit_name

cfgVars == <<overflow_checks, panicked, groups, lastOp, shown>>
srcVars == <<dragging_state, accepted, srcEvent, srcPublished, drags>>
dstVars == <<dnd_offer, offerPhase, offerOf, dstEvent, dstPublished>>
appVars == <<search_value, cur_group, entry_path_input, shownInput, dnd_icon, dragged, offer_group, stored,
             waiting_for_filtered, inflight, dispatched, lastMsg, changes>>
panelVars == <<active_surface, menu, new_group, group_to_delete, edit_name>>
loadVars == <<all_entries, duplicates>>
vars == <<cfgVars, srcVars, dstVars, appVars, panelVars, loadVars, queue>>

----------------------------------------------------------------------------
(* Strings *)

NoValue == "none"

\* Option<T>
None == <<>>
Some(x) == <<x>>

\* char::to_lowercase on ASCII: 'A'..'Z' (65..90) map to 'a'..'z'
LowerChar(c) == IF c >= 65 /\ c <= 90 THEN c + 32 ELSE c

ToLower_Identity(s) == s

\* str::to_lowercase
ToLower(s) == [k \in 1..Len(s) |-> LowerChar(s[k])]

\* str::contains(&str): substring search; the empty needle is contained in everything
Contains(hay, needle) ==
    \E k \in 0..(Len(hay) - Len(needle)) :
        \A j \in 1..Len(needle) : hay[k + j] = needle[j]

\* Vec::retain(|x| x != id)
Retain(list, id) == SelectSeq(list, LAMBDA x : x # id)

\* the set of elements of a sequence
Range(list) == {list[k] : k \in 1..Len(list)}

----------------------------------------------------------------------------
(* Desktop entries: the files the scan finds *)

S_empty  == <<>>                          \* ""
S_Of     == <<79, 102>>                   \* "Of"   (stands for "Office")
S_of     == <<111, 102>>                  \* "of"
S_zz     == <<122, 122>>                  \* "zz"
S_OfTe   == <<79, 102, 59, 84, 101, 59>>  \* "Of;Te;"
S_Sy_    == <<83, 121, 59>>               \* "Sy;"
S_Ed     == <<69, 100>>                   \* "Ed"
S_sh     == <<115, 104>>                  \* "sh"
S_calc   == <<99, 97>>                    \* "ca"

\* A desktop file: appid, resolved Name, Categories (NoValue when the key is absent),
\* whether it has Exec and Icon keys, NoDisplay, and the path of the file.
TextEntry == [id |-> "text", name |-> S_Ed,   categories |-> S_OfTe,  exec |-> TRUE,
              icon |-> TRUE,  no_display |-> FALSE,
              path |-> Some("text")]
TermEntry == [id |-> "term", name |-> S_sh,   categories |-> S_Sy_,   exec |-> TRUE,
              icon |-> FALSE, no_display |-> FALSE,
              path |-> Some("term")]
CalcEntry == [id |-> "calc", name |-> S_calc, categories |-> NoValue, exec |-> TRUE,
              icon |-> TRUE,  no_display |-> FALSE,
              path |-> Some("calc")]
HiddenEntry == [id |-> "hid", name |-> S_of,  categories |-> S_OfTe,  exec |-> TRUE,
              icon |-> TRUE,  no_display |-> TRUE,
              path |-> Some("hid")]

\* the application ids that calls name
Ids == {"text", "calc"}

\* the entry lists handed to filtered()
EntryLists == {<<TextEntry>>, <<HiddenEntry, TextEntry, TermEntry, CalcEntry>>}

\* the search texts handed to filtered()
SearchTexts == {S_empty, S_of, S_zz}

----------------------------------------------------------------------------
(* Groups and filters (app_group.rs) *)

AppIds(ids) ==
    [tag |-> "AppIds", ids |-> ids, categories |-> <<>>, exclude |-> <<>>, include |-> <<>>]

Categories(categories, exclude, include) ==
    [tag |-> "Categories", ids |-> <<>>, categories |-> categories,
     exclude |-> exclude, include |-> include]

FilterNone ==
    [tag |-> "None", ids |-> <<>>, categories |-> <<>>, exclude |-> <<>>, include |-> <<>>]

\* static HOME
HOME == [name |-> "cosmic-library-home", icon |-> "user-home-symbolic", filter |-> FilterNone]

\* entry.categories().map(|cats| cats.to_lowercase().contains(&x.to_lowercase()))
\*      .unwrap_or_default()
CategoriesContain(entry, x) ==
    IF entry.categories = NoValue THEN FALSE
    ELSE Contains(ToLower(entry.categories), ToLower(x))

\* AppGroup::matches
matches(group, entry) ==
    CASE group.filter.tag = "AppIds" ->
            \E k \in 1..Len(group.filter.ids) : group.filter.ids[k] = entry.id
      [] group.filter.tag = "Categories" ->
            \/ \E k \in 1..Len(group.filter.categories) :
                    CategoriesContain(entry, group.filter.categories[k])
            \/ \E k \in 1..Len(group.filter.include) : group.filter.include[k] = entry.id
      [] group.filter.tag = "None" -> TRUE

\* the closure of AppGroup::filtered: whether one scanned desktop file is kept
keep_de(group, input_value, entry) ==
    /\ entry.exec
    /\ ~entry.no_display
    /\ matches(group, entry)
    /\ Len(input_value) > 0 =>
          \/ Contains(ToLower(entry.name), ToLower(input_value))
          \/ CategoriesContain(entry, input_value)

\* AppGroup::filtered, over the scanned files in scan order
GroupFiltered(group, input_value, entries) ==
    SelectSeq(entries, LAMBDA e : keep_de(group, input_value, e))

\* `i - 1` on a usize: with overflow checks the subtraction 0 - 1 panics, without
\* them it wraps to usize::MAX, which is no index of any Vec
Sub1(i) == [wrapped |-> i = 0, v |-> IF i = 0 THEN 0 ELSE i - 1]

Sub1Panics(checks, i) == checks /\ i = 0

\* `i - 1 < self.groups.len()`, and whether `self.groups.get(i - 1)` is Some
InRange(idx, gs) == ~idx.wrapped /\ idx.v < Len(gs)

\* AppLibraryConfig::groups
CombinedGroups(gs) == <<HOME>> \o gs

\* AppLibraryConfig::_filtered
InnerFiltered(gs, k, input_value, entries) ==
    IF k < Len(gs) THEN GroupFiltered(gs[k + 1], input_value, entries) ELSE <<>>

\* AppLibraryConfig::filtered
filtered(gs, i, input_value, entries) ==
    IF i = 0 THEN GroupFiltered(HOME, input_value, entries)
    ELSE InnerFiltered(gs, i - 1, input_value, entries)

\* remove_entry that forgets `exclude.push(id)`
RemoveFromFilter_NoPush(f, id) ==
    CASE f.tag = "AppIds" -> [f EXCEPT !.ids = Retain(f.ids, id)]
      [] f.tag = "Categories" ->
            [f EXCEPT !.include = Retain(f.include, id),
                      !.exclude = Retain(f.exclude, id)]
      [] f.tag = "None" -> f

\* the filter of a group after remove_entry's match on it
RemoveFromFilter(f, id) ==
    CASE f.tag = "AppIds" -> [f EXCEPT !.ids = Retain(f.ids, id)]
      [] f.tag = "Categories" ->
            [f EXCEPT !.include = Retain(f.include, id),
                      !.exclude = Append(Retain(f.exclude, id), id)]
      [] f.tag = "None" -> f

\* AppLibraryConfig::remove_entry: the groups afterwards
remove_entry(gs, i, id) ==
    IF InRange(Sub1(i), gs)
    THEN [gs EXCEPT ![i].filter = RemoveFromFilter(gs[i].filter, id)]
    ELSE gs

AddToFilter_AlwaysPush(f, id) ==
    CASE f.tag = "AppIds" -> [f EXCEPT !.ids = Append(f.ids, id)]
      [] f.tag = "Categories" -> [f EXCEPT !.include = Append(f.include, id)]
      [] f.tag = "None" -> f

\* add_entry that leaves exclude as it is
AddToFilter_KeepsExclude(f, id) ==
    CASE f.tag = "AppIds" ->
            IF \A k \in 1..Len(f.ids) : f.ids[k] # id
            THEN [f EXCEPT !.ids = Append(f.ids, id)] ELSE f
      [] f.tag = "Categories" ->
            [f EXCEPT !.include = Append(Retain(f.include, id), id)]
      [] f.tag = "None" -> f

\* the filter of a group after add_entry's branches on it
AddToFilter(f, id) ==
    CASE f.tag = "AppIds" ->
            IF \A k \in 1..Len(f.ids) : f.ids[k] # id
            THEN [f EXCEPT !.ids = Append(f.ids, id)] ELSE f
      [] f.tag = "Categories" ->
            [f EXCEPT !.include = Append(Retain(f.include, id), id),
                      !.exclude = Retain(f.exclude, id)]
      [] f.tag = "None" -> f

\* AppLibraryConfig::add_entry: the groups afterwards
add_entry(gs, i, id) ==
    IF InRange(Sub1(i), gs)
    THEN [gs EXCEPT ![i].filter = AddToFilter(gs[i].filter, id)]
    ELSE gs

----------------------------------------------------------------------------
(* Bounds *)

\* the longest include / exclude list of the configuration read at startup
MaxList == 1

\* how many times the environment changes the search text or the group
MaxChanges == 1

\* the largest pointer coordinate
MaxCoord == 5

\* the width and height of the dragged tile, whose bounds start at the origin
TileSize == 2

\* how many published messages may wait for update()
MaxQueue == 3

\* how many offers the compositor makes
MaxOffers == 2

\* how many user groups the configuration grows to
MaxGroups == 2

\* sequences over S of length at most n
RECURSIVE SeqsUpTo(_, _)
SeqsUpTo(S, n) ==
    IF n = 0 THEN {<<>>}
    ELSE SeqsUpTo(S, n - 1) \cup
         {Append(q, x) : q \in {r \in SeqsUpTo(S, n - 1) : Len(r) = n - 1}, x \in S}

\* the id lists a stored configuration may hold for the entry "text" (duplicates
\* and an id in both lists included)
InitLists == SeqsUpTo({"text"}, MaxList)

\* the stored configurations the program starts from: the first group is the
\* default "cosmic-office" group with any id lists, the second an id group
InitGroups ==
    {<<[name |-> "cosmic-office", icon |-> "folder-symbolic",
        filter |-> Categories(<<S_Of>>, exc, inc)],
       [name |-> "second", icon |-> "folder-symbolic", filter |-> AppIds(<<"calc">>)]>> :
        exc \in InitLists, inc \in InitLists}

\* group indices calls name: Home, the user groups, and one past the end
Indices == 0..3

----------------------------------------------------------------------------
(* Calls on the configuration *)

NoOp == [op |-> "none", i |-> 0, id |-> NoValue, input |-> <<>>, entries |-> <<>>,
         preNeither |-> FALSE, prev |-> "other"]

\* whether id is in neither id list of group i (a Categories group) of gs
InNeither(gs, i, id) ==
    /\ i >= 1 /\ i <= Len(gs)
    /\ gs[i].filter.tag = "Categories"
    /\ id \notin Range(gs[i].filter.include)
    /\ id \notin Range(gs[i].filter.exclude)

\* what the previous call was, seen from a call on group i about the ids in S:
\* an add_entry or a remove_entry on the same group and one of these ids, or another call
Prev(i, S) ==
    IF lastOp.op \in {"add_entry", "remove_entry"} /\ lastOp.i = i /\ lastOp.id \in S
    THEN lastOp.op ELSE "other"

Mutation(op, i, id) ==
    [op |-> op, i |-> i, id |-> id, input |-> <<>>, entries |-> <<>>,
     preNeither |-> InNeither(groups, i, id),
     prev |-> Prev(i, {id})]

\* CosmicAppLibrary::default for the panel state, the surface shown or not
PanelDefault(active) ==
    /\ active_surface = active
    /\ menu = None
    /\ new_group = None
    /\ group_to_delete = None
    /\ edit_name = None

\* the storage after the configuration was loaded from it: it holds the list
\* the program has, and nothing else was ever handed to a write
Stored(gs) == [groups |-> gs, attempted |-> gs]

idle ==
    /\ UNCHANGED <<srcVars, loadVars, dstVars, appVars, panelVars, queue>>

InitRest ==
    /\ dragging_state = [tag |-> "None"]
    /\ accepted = None
    /\ srcEvent = [type |-> "none", tick |-> 0]
    /\ srcPublished = <<>>
    /\ drags = 0
    /\ queue = <<>>
    /\ dnd_offer = <<>>
    /\ offerPhase = [phase |-> "none", offer |-> 0, mime_types |-> <<>>]
    /\ offerOf = <<>>
    /\ dstEvent = [type |-> "none"]
    /\ dstPublished = <<>>
    /\ search_value = <<>>
    /\ cur_group = 0
    /\ entry_path_input = <<>>
    /\ shownInput = None
    /\ dnd_icon = None
    /\ dragged = None
    /\ all_entries = <<>>
    /\ duplicates = {}
    /\ offer_group = None
    /\ stored = Stored(groups)
    /\ waiting_for_filtered = FALSE
    /\ inflight = <<>>
    /\ dispatched = <<>>
    /\ lastMsg = [type |-> "none"]
    /\ changes = 0
    /\ PanelDefault(FALSE)

InitConfig ==
    /\ overflow_checks \in BOOLEAN
    /\ panicked = FALSE
    /\ groups \in InitGroups
    /\ lastOp = NoOp
    /\ shown = <<>>
    /\ InitRest

\* a call config.add_entry(i, id)
CallAddEntry(i, id) ==
    /\ ~panicked
    /\ lastOp' = Mutation("add_entry", i, id)
    /\ IF Sub1Panics(overflow_checks, i)
       THEN panicked' = TRUE /\ UNCHANGED groups
       ELSE panicked' = FALSE /\ groups' = add_entry(groups, i, id)
    /\ shown' = <<>>
    /\ UNCHANGED overflow_checks
    /\ idle

\* a call config.remove_entry(i, id)
CallRemoveEntry(i, id) ==
    /\ ~panicked
    /\ lastOp' = Mutation("remove_entry", i, id)
    /\ IF Sub1Panics(overflow_checks, i)
       THEN panicked' = TRUE /\ UNCHANGED groups
       ELSE panicked' = FALSE /\ groups' = remove_entry(groups, i, id)
    /\ shown' = <<>>
    /\ UNCHANGED overflow_checks
    /\ idle

\* a call config.filtered(i, locale, input_value) over the scanned files
CallFiltered(i, input_value, entries) ==
    /\ ~panicked
    /\ lastOp' = [op |-> "filtered", i |-> i, id |-> NoValue, input |-> input_value,
                  entries |-> entries, preNeither |-> FALSE,
                  prev |-> Prev(i, {entries[k].id : k \in 1..Len(entries)})]
    /\ shown' = filtered(groups, i, input_value, entries)
    /\ UNCHANGED <<overflow_checks, panicked, groups>>
    /\ idle

NextConfig ==
    \/ \E i \in Indices, id \in Ids : CallAddEntry(i, id)
    \/ \E i \in Indices, id \in Ids : CallRemoveEntry(i, id)
    \/ \E i \in Indices, s \in SearchTexts, E \in EntryLists : CallFiltered(i, s, E)

SpecConfig == InitConfig /\ [][NextConfig]_vars

----------------------------------------------------------------------------
(* Structural edits of the configuration: add, remove, set_name *)

\* the names the user types
GroupNames == {"n"}

\* AppLibraryConfig::add: the groups afterwards
add(gs, name) ==
    Append(gs, [name |-> name, icon |-> "folder-symbolic", filter |-> AppIds(<<>>)])

remove_Clamped(gs, i) ==
    IF gs = <<>> \/ i = 0 THEN gs
    ELSE IF i > Len(gs) THEN SubSeq(gs, 1, Len(gs) - 1)
    ELSE SubSeq(gs, 1, i - 1) \o SubSeq(gs, i + 1, Len(gs))

\* AppLibraryConfig::remove: the groups afterwards
remove(gs, i) ==
    IF InRange(Sub1(i), gs)
    THEN SubSeq(gs, 1, i - 1) \o SubSeq(gs, i + 1, Len(gs))
    ELSE gs

set_name_ZeroBased(gs, i, name) ==
    IF i + 1 <= Len(gs) THEN [gs EXCEPT ![i + 1].name = name] ELSE gs

\* AppLibraryConfig::set_name: the groups afterwards
set_name(gs, i, name) ==
    IF InRange(Sub1(i), gs)
    THEN [gs EXCEPT ![i].name = name]
    ELSE gs

\* a call of a method that computes i - 1: it panics or yields the groups `after`
IndexedCall(op, i, arg, after) ==
    /\ ~panicked
    /\ lastOp' = Mutation(op, i, arg)
    /\ IF Sub1Panics(overflow_checks, i)
       THEN panicked' = TRUE /\ UNCHANGED groups
       ELSE panicked' = FALSE /\ groups' = after
    /\ shown' = <<>>
    /\ UNCHANGED overflow_checks
    /\ idle

\* a call config.add(name)
CallAdd(name) ==
    /\ ~panicked
    /\ Len(groups) < MaxGroups
    /\ lastOp' = Mutation("add", 0, name)
    /\ groups' = add(groups, name)
    /\ shown' = <<>>
    /\ UNCHANGED <<overflow_checks, panicked>>
    /\ idle

\* a call config.remove(i)
CallRemove(i) == IndexedCall("remove", i, NoValue, remove(groups, i))

\* a call config.set_name(i, name)
CallSetName(i, name) == IndexedCall("set_name", i, name, set_name(groups, i, name))

\* the indices calls name: Home, the user groups, and one past the end
EditIndices == 0..(MaxGroups + 1)

NextEdit ==
    \/ \E name \in GroupNames : CallAdd(name)
    \/ \E i \in EditIndices : CallRemove(i)
    \/ \E i \in EditIndices, name \in GroupNames : CallSetName(i, name)
    \/ \E i \in EditIndices : CallAddEntry(i, "text")
    \/ \E i \in EditIndices : CallRemoveEntry(i, "text")

SpecEdit == InitConfig /\ [][NextEdit]_vars

----------------------------------------------------------------------------
(* The application (app.rs): the displayed list and its recomputation *)

\* str::cmp: byte-wise lexicographic order, a <= b
RECURSIVE StrLeq(_, _)
StrLeq(a, b) ==
    IF Len(a) = 0 THEN TRUE
    ELSE IF Len(b) = 0 THEN FALSE
    ELSE IF a[1] < b[1] THEN TRUE
    ELSE IF a[1] > b[1] THEN FALSE
    ELSE StrLeq(Tail(a), Tail(b))

\* insert e into a list already sorted by name, after the entries not greater
\* than it (sort_by is stable)
RECURSIVE InsertByName(_, _)
InsertByName(sorted, e) ==
    IF sorted = <<>> THEN <<e>>
    ELSE IF StrLeq(sorted[1].name, e.name)
         THEN <<sorted[1]>> \o InsertByName(Tail(sorted), e)
         ELSE <<e>> \o sorted

\* apps.sort_by(|a, b| a.name.cmp(&b.name))
RECURSIVE SortByName(_)
SortByName(list) ==
    IF list = <<>> THEN <<>>
    ELSE InsertByName(SortByName(SubSeq(list, 1, Len(list) - 1)), list[Len(list)])

\* self.all_entries after load_apps: the scan, sorted by name
AllEntries == SortByName(<<CalcEntry, TextEntry>>)

\* char::is_whitespace on ASCII
IsWhitespace(c) == c \in {9, 10, 11, 12, 13, 32}

RECURSIVE TrimStart(_)
TrimStart(s) == IF s # <<>> /\ IsWhitespace(s[1]) THEN TrimStart(Tail(s)) ELSE s

RECURSIVE TrimEnd(_)
TrimEnd(s) ==
    IF s # <<>> /\ IsWhitespace(s[Len(s)]) THEN TrimEnd(SubSeq(s, 1, Len(s) - 1)) ELSE s

\* str::trim
Trim(s) == TrimEnd(TrimStart(s))

\* name.to_lowercase().trim()
Normalized(name) == Trim(ToLower(name))

\* path.as_ref() of an entry: what `if let Some(path)` inserts into the map
PathOf(e) == IF e.path = None THEN {} ELSE {e.path[1]}

\* load_apps, the fold that collects the duplicates, from entry i on: acc is
\* (dups, cur_count, cur_name, cur_id). The map is modelled by its keys: the
\* value of a key is AppSource::from of that key.
RECURSIVE FoldDuplicates(_, _, _)
FoldDuplicates(entries, i, acc) ==
    IF i > Len(entries) THEN acc.dups
    ELSE LET e == entries[i]
         IN  IF Normalized(acc.cur_name) = Normalized(e.name) \/ e.id = acc.cur_id
             THEN FoldDuplicates(entries, i + 1,
                    [dups |-> acc.dups
                                \cup (IF acc.cur_count = 1 THEN PathOf(entries[i - 1]) ELSE {})
                                \cup PathOf(e),
                     cur_count |-> acc.cur_count + 1,
                     cur_name |-> acc.cur_name,
                     cur_id |-> acc.cur_id])
             ELSE FoldDuplicates(entries, i + 1,
                    [dups |-> acc.dups, cur_count |-> 1,
                     cur_name |-> e.name, cur_id |-> e.id])

\* load_apps: self.duplicates after the fold over all_entries
CollectDuplicates(entries) ==
    FoldDuplicates(entries, 1, [dups |-> {}, cur_count |-> 0, cur_name |-> <<>>, cur_id |-> ""])

\* CosmicAppLibrary::load_apps, `scan` being what load_applications returns
load_apps(scan) ==
    /\ all_entries' = SortByName(scan)
    /\ entry_path_input' = filtered(groups, cur_group, search_value, all_entries')
    /\ duplicates' = CollectDuplicates(all_entries')
    /\ UNCHANGED <<search_value, cur_group, shownInput, dnd_icon, dragged, offer_group, stored,
                   waiting_for_filtered, inflight, dispatched, lastMsg, changes>>
    /\ UNCHANGED <<groups, panicked>>

\* the body of the task filter_apps dispatches: its result message
FilterTask(gs, grp, input) ==
    [input |-> input, group |-> grp,
     apps |-> SortByName(filtered(gs, grp, input, AllEntries))]

\* filter_apps that dispatches even while a task is in flight
filter_apps_NoGuard(waiting, tasks, gs, grp, input) ==
    [waiting |-> TRUE,
     inflight |-> Append(tasks, FilterTask(gs, grp, input)),
     dispatched |-> <<FilterTask(gs, grp, input)>>]

\* CosmicAppLibrary::filter_apps, called with the flag and the tasks in flight
\* as they are at the call: the flag, the tasks in flight and the tasks
\* dispatched afterwards
filter_apps(waiting, tasks, gs, grp, input) ==
    IF ~waiting
    THEN [waiting |-> TRUE,
          inflight |-> Append(tasks, FilterTask(gs, grp, input)),
          dispatched |-> <<FilterTask(gs, grp, input)>>]
    ELSE [waiting |-> waiting, inflight |-> tasks, dispatched |-> <<>>]

\* no call of filter_apps
NoFilterApps == [waiting |-> waiting_for_filtered, inflight |-> inflight, dispatched |-> <<>>]

\* the handler's result r of filter_apps becomes the state
SetFilterState(r) ==
    /\ waiting_for_filtered' = r.waiting
    /\ inflight' = r.inflight
    /\ dispatched' = r.dispatched

\* self.config.write_entry(helper), the configuration helper being there: the
\* whole list is handed to the write; the write may fail (it is logged), and
\* then the storage keeps what it held
WriteEntry(gs) ==
    stored' \in {[groups |-> gs, attempted |-> gs],
                 [groups |-> stored.groups, attempted |-> gs]}

\* the sequence without its k-th element
RemoveAt(list, k) == SubSeq(list, 1, k - 1) \o SubSeq(list, k + 1, Len(list))

\* Message::InputChanged(value)
UpdateInputChanged(value) ==
    /\ search_value' = value
    /\ SetFilterState(filter_apps(waiting_for_filtered, inflight, groups, cur_group, value))
    /\ lastMsg' = [type |-> "InputChanged"]
    /\ UNCHANGED <<cur_group, entry_path_input, shownInput, dnd_icon, dragged, offer_group, stored>>
    /\ UNCHANGED <<groups, panicked>>

\* Message::SelectGroup(i)
UpdateSelectGroup(i) ==
    /\ edit_name' = None
    /\ search_value' = <<>>
    /\ cur_group' = i
    /\ SetFilterState(filter_apps(waiting_for_filtered, inflight, groups, i, <<>>))
    /\ lastMsg' = [type |-> "SelectGroup"]
    /\ UNCHANGED <<entry_path_input, shownInput, dnd_icon, dragged, offer_group, stored>>
    /\ UNCHANGED <<groups, panicked>>

\* Message::LoadApps
UpdateLoadApps ==
    /\ SetFilterState(filter_apps(waiting_for_filtered, inflight, groups, cur_group,
                                  search_value))
    /\ lastMsg' = [type |-> "LoadApps"]
    /\ UNCHANGED <<search_value, cur_group, entry_path_input, shownInput, dnd_icon, dragged,
                   offer_group, stored>>
    /\ UNCHANGED <<groups, panicked>>

UpdateFilterApps_NoRetry(k) ==
    /\ entry_path_input' = inflight[k].apps
    /\ shownInput' = Some(inflight[k].input)
    /\ SetFilterState([waiting |-> FALSE, inflight |-> RemoveAt(inflight, k),
                       dispatched |-> <<>>])
    /\ lastMsg' = [type |-> "FilterApps"]
    /\ UNCHANGED <<search_value, cur_group, dnd_icon, dragged, offer_group, stored>>
    /\ UNCHANGED <<groups, panicked>>

\* Message::FilterApps(input, filtered_apps): the result of the k-th task in flight
UpdateFilterApps(k) ==
    /\ entry_path_input' = inflight[k].apps
    /\ shownInput' = Some(inflight[k].input)
    /\ SetFilterState(
          IF search_value # inflight[k].input
          THEN filter_apps(FALSE, RemoveAt(inflight, k), groups, cur_group, search_value)
          ELSE [waiting |-> FALSE, inflight |-> RemoveAt(inflight, k), dispatched |-> <<>>])
    /\ lastMsg' = [type |-> "FilterApps"]
    /\ UNCHANGED <<search_value, cur_group, dnd_icon, dragged, offer_group, stored>>
    /\ UNCHANGED <<groups, panicked>>

\* Message::StartDrag(i)
UpdateStartDrag(i) ==
    /\ dnd_icon' = Some(i)
    /\ dragged' = IF i < Len(entry_path_input)
                  THEN Some([id |-> entry_path_input[i + 1].id, group |-> cur_group])
                  ELSE None
    /\ lastMsg' = [type |-> "StartDrag"]
    /\ UNCHANGED <<search_value, cur_group, entry_path_input, shownInput, offer_group,
                   stored, waiting_for_filtered, inflight>>
    /\ dispatched' = <<>>
    /\ UNCHANGED <<groups, panicked>>

\* self.dnd_icon.take().and_then(|i| self.entry_path_input.get(i)) is Some
DraggedEntryKnown == dnd_icon # None /\ dnd_icon[1] < Len(entry_path_input)

\* Message::FinishDrag(copy)
UpdateFinishDrag(copy) ==
    /\ lastMsg' = [type |-> "FinishDrag", copy |-> copy,
                   removed |-> IF ~copy /\ DraggedEntryKnown
                               THEN entry_path_input[dnd_icon[1] + 1].id ELSE NoValue]
    /\ IF copy
       THEN /\ UNCHANGED <<dnd_icon, groups, panicked, stored>>
            /\ SetFilterState(NoFilterApps)
       ELSE /\ dnd_icon' = None
            /\ IF ~DraggedEntryKnown
               THEN /\ UNCHANGED <<groups, panicked, stored>>
                    /\ SetFilterState(NoFilterApps)
               ELSE IF Sub1Panics(overflow_checks, cur_group)
               THEN /\ panicked' = TRUE
                    /\ UNCHANGED <<groups, stored>>
                    /\ SetFilterState(NoFilterApps)
               ELSE /\ groups' = remove_entry(groups, cur_group,
                                              entry_path_input[dnd_icon[1] + 1].id)
                    /\ WriteEntry(groups')
                    /\ SetFilterState(filter_apps(waiting_for_filtered, inflight, groups',
                                                  cur_group, search_value))
                    /\ UNCHANGED panicked
    /\ UNCHANGED <<search_value, cur_group, entry_path_input, shownInput, offer_group,
                   dragged>>

\* Message::CancelDrag
UpdateCancelDrag ==
    /\ dnd_icon' = None
    /\ UNCHANGED dragged
    /\ lastMsg' = [type |-> "CancelDrag"]
    /\ UNCHANGED <<search_value, cur_group, entry_path_input, shownInput, offer_group,
                   stored, waiting_for_filtered, inflight>>
    /\ dispatched' = <<>>
    /\ UNCHANGED <<groups, panicked>>

----------------------------------------------------------------------------
(* The application driven by its messages *)

\* the configuration the application runs with: the default office group and a
\* group of ids
AppGroups ==
    <<[name |-> "cosmic-office", icon |-> "folder-symbolic",
       filter |-> Categories(<<S_Of>>, <<>>, <<>>)],
      [name |-> "second", icon |-> "folder-symbolic", filter |-> AppIds(<<"calc">>)]>>

\* the application after activate(): load_apps has scanned and filtered for Home
InitApp ==
    /\ overflow_checks \in BOOLEAN
    /\ panicked = FALSE
    /\ groups = AppGroups
    /\ lastOp = NoOp
    /\ shown = <<>>
    /\ dragging_state = [tag |-> "None"]
    /\ accepted = None
    /\ srcEvent = [type |-> "none", tick |-> 0]
    /\ srcPublished = <<>>
    /\ drags = 0
    /\ queue = <<>>
    /\ dnd_offer = <<>>
    /\ offerPhase = [phase |-> "none", offer |-> 0, mime_types |-> <<>>]
    /\ offerOf = <<>>
    /\ dstEvent = [type |-> "none"]
    /\ dstPublished = <<>>
    /\ search_value = <<>>
    /\ cur_group = 0
    /\ entry_path_input = filtered(groups, 0, <<>>, AllEntries)
    /\ shownInput = Some(<<>>)
    /\ dnd_icon = None
    /\ dragged = None
    /\ all_entries = AllEntries
    /\ duplicates = CollectDuplicates(AllEntries)
    /\ offer_group = None
    /\ stored = Stored(groups)
    /\ waiting_for_filtered = FALSE
    /\ inflight = <<>>
    /\ dispatched = <<>>
    /\ lastMsg = [type |-> "none"]
    /\ changes = MaxChanges
    /\ PanelDefault(TRUE)

appIdle == UNCHANGED <<overflow_checks, lastOp, shown, srcVars, loadVars, dstVars, panelVars, queue>>

\* the user edits the search text
MsgInputChanged(value) ==
    /\ ~panicked
    /\ changes > 0
    /\ changes' = changes - 1
    /\ UpdateInputChanged(value)
    /\ appIdle

\* the user presses a group tile
MsgSelectGroup(i) ==
    /\ ~panicked
    /\ changes > 0
    /\ changes' = changes - 1
    /\ UpdateSelectGroup(i)
    /\ UNCHANGED <<overflow_checks, lastOp, shown, srcVars, loadVars, dstVars, queue>>
    /\ UNCHANGED <<active_surface, menu, new_group, group_to_delete>>

\* the desktop files changed on disk
MsgLoadApps ==
    /\ ~panicked
    /\ UpdateLoadApps
    /\ UNCHANGED changes
    /\ appIdle

\* a recomputation task finishes and its result is handled
MsgFilterApps(k) ==
    /\ ~panicked
    /\ UpdateFilterApps(k)
    /\ UNCHANGED changes
    /\ appIdle

\* a tile reports that a drag started
MsgStartDrag(i) ==
    /\ ~panicked
    /\ UpdateStartDrag(i)
    /\ UNCHANGED changes
    /\ appIdle

\* a tile reports that its drag finished
MsgFinishDrag(copy) ==
    /\ ~panicked
    /\ UpdateFinishDrag(copy)
    /\ UNCHANGED changes
    /\ appIdle

\* a tile reports that its drag was cancelled
MsgCancelDrag ==
    /\ ~panicked
    /\ UpdateCancelDrag
    /\ UNCHANGED changes
    /\ appIdle

NextApp ==
    \/ \E v \in SearchTexts : MsgInputChanged(v)
    \/ \E i \in 0..Len(groups) : MsgSelectGroup(i)
    \/ MsgLoadApps
    \/ \E k \in 1..Len(inflight) : MsgFilterApps(k)
    \/ \E i \in 0..(Len(entry_path_input) - 1) : MsgStartDrag(i)
    \/ \E copy \in BOOLEAN : MsgFinishDrag(copy)
    \/ MsgCancelDrag

SpecApp == InitApp /\ [][NextApp]_vars

\* every dispatched task eventually delivers its result
FairSpecApp == SpecApp /\ WF_vars(\E k \in 1..Len(inflight) : MsgFilterApps(k))

----------------------------------------------------------------------------
(* The scan of the desktop files: load_apps *)

\* how many desktop files a scan finds
MaxScan == 3

S_Ab   == <<65, 98>>       \* "Ab"
S_ab_  == <<97, 98, 32>>   \* "ab "
S_B    == <<66>>           \* "B"

\* a desktop file of the scan
ScanFile(id, name, path) ==
    [id |-> id, name |-> name, categories |-> NoValue, exec |-> TRUE, icon |-> TRUE,
     no_display |-> FALSE, path |-> path]

\* the files load_applications can return: two files that share a name, a file
\* whose name differs from theirs in case and trailing space, files with a
\* name that sorts between, one of which shares an id, and one without a path
ScanFiles ==
    {ScanFile("a", S_Ab, Some("/usr/a")),
     ScanFile("d", S_Ab, Some("/opt/d")),
     ScanFile("b", S_ab_, Some("/usr/b")),
     ScanFile("c", S_B, Some("/usr/c")),
     ScanFile("d", S_B, Some("/home/d")),
     ScanFile("e", S_B, None)}

\* the scans: up to MaxScan files, each once, in any order
Scans ==
    {scan \in SeqsUpTo(ScanFiles, MaxScan) :
        \A j, k \in 1..Len(scan) : j # k => scan[j] # scan[k]}

\* the application before its first scan
InitLoad ==
    /\ overflow_checks = FALSE
    /\ panicked = FALSE
    /\ groups = AppGroups
    /\ lastOp = NoOp
    /\ shown = <<>>
    /\ InitRest

\* load_apps runs on what the scan returned
CallLoadApps(scan) ==
    /\ load_apps(scan)
    /\ lastOp' = [NoOp EXCEPT !.op = "load_apps", !.entries = scan]
    /\ UNCHANGED <<overflow_checks, shown, srcVars, dstVars, panelVars, queue>>

NextLoad == \E scan \in Scans : CallLoadApps(scan)

SpecLoad == InitLoad /\ [][NextLoad]_vars

----------------------------------------------------------------------------
(* The drag source (widgets/application.rs) *)

\* const DRAG_THRESHOLD: f32 = 25.0
DRAG_THRESHOLD == 25

Points == [x : 0..MaxCoord, y : 0..MaxCoord]

\* mouse::Cursor: Available(point) or Unavailable
Cursors == {Some(p) : p \in Points} \cup {None}

\* layout.bounds() of the tile
TileBounds == [x |-> 0, y |-> 0, width |-> TileSize, height |-> TileSize]

\* Rectangle::contains
RectContains(r, p) ==
    /\ r.x <= p.x /\ p.x < r.x + r.width
    /\ r.y <= p.y /\ p.y < r.y + r.height

\* Cursor::is_over
IsOver(cursor, r) == cursor # None /\ RectContains(r, cursor[1])

\* cursor_position.position().unwrap_or_default()
PositionOrDefault(cursor) == IF cursor = None THEN [x |-> 0, y |-> 0] ELSE cursor[1]

\* DndAction bit sets
DndActions == SUBSET {"Copy", "Move"}

\* the events the tile receives: left button or finger pressed, pointer or
\* finger moved, left button or finger released, and the data source events
SrcEvents ==
    [type : {"Pressed", "Moved", "Released"}, cursor : Cursors]
    \cup {[type |-> "DndFinished"], [type |-> "Cancelled"]}
    \cup [type : {"DndActionAccepted"}, actions : DndActions]

\* d_y * d_y + d_x * d_x
DistanceSquared(start, pos) ==
    (pos.y - start.y) * (pos.y - start.y) + (pos.x - start.x) * (pos.x - start.x)

\* the comparison with the threshold squared
ExceedsThreshold_Squared(distance_squared) ==
    distance_squared > DRAG_THRESHOLD * DRAG_THRESHOLD

\* distance_squared > DRAG_THRESHOLD
ExceedsThreshold(distance_squared) == distance_squared > DRAG_THRESHOLD

\* ActionInner::StartDnd built by the published closure
StartDndAction(path) ==
    [type |-> "on_dnd_command_produced", action |-> "StartDnd",
     mime_types |-> <<"text/uri-list">>, actions |-> {"Copy", "Move"}, data |-> path]

BeginDrag_ActionFirst(path) ==
    [state |-> [tag |-> "Dragging", path |-> path, copy |-> FALSE],
     published |-> <<StartDndAction(path), [type |-> "on_create_dnd_source"]>>]

\* the threshold is exceeded: the tile is Dragging(path, false), and it has
\* published on_create_dnd_source and then the producer of the StartDnd action
BeginDrag(path) ==
    [state |-> [tag |-> "Dragging", path |-> path, copy |-> FALSE],
     published |-> <<[type |-> "on_create_dnd_source"], StartDndAction(path)>>]

DraggingOnFinished_StaysDragging(state) ==
    [state |-> state,
     published |-> <<[type |-> "on_finish", copy |-> state.copy]>>]

\* Dragging(applet, copy), the data source reports DndFinished: on_finish(copy)
\* is published and the tile is back in None
DraggingOnFinished(state) ==
    [state |-> [tag |-> "None"],
     published |-> <<[type |-> "on_finish", copy |-> state.copy]>>]

\* ApplicationButton::on_event, the match on state.dragging_state: the state
\* afterwards and the callbacks published, for the tile of the entry at `path`
SourceOnEvent(state, ev, path) ==
    CASE state.tag = "None" ->
            IF ev.type = "Pressed" /\ IsOver(ev.cursor, TileBounds)
            THEN [state |-> [tag |-> "Pressed", start |-> PositionOrDefault(ev.cursor)],
                  published |-> <<>>]
            ELSE [state |-> state, published |-> <<>>]
      [] state.tag = "Dragging" ->
            CASE ev.type = "DndFinished" -> DraggingOnFinished(state)
              [] ev.type = "Cancelled" ->
                    [state |-> [tag |-> "None"],
                     published |-> <<[type |-> "on_cancel"]>>]
              [] ev.type = "DndActionAccepted" ->
                    [state |-> [state EXCEPT !.copy = "Copy" \in ev.actions],
                     published |-> <<>>]
              [] OTHER -> [state |-> state, published |-> <<>>]
      [] state.tag = "Pressed" ->
            IF ev.type = "Moved"
            THEN IF ExceedsThreshold(DistanceSquared(state.start, PositionOrDefault(ev.cursor)))
                 THEN BeginDrag(path)
                 ELSE [state |-> state, published |-> <<>>]
            ELSE [state |-> state, published |-> <<>>]

\* history: the action set accepted last in the drag that the state is in
AcceptedAfter(state, ev, before) ==
    CASE state.tag = "Dragging" /\ ev.type = "DndActionAccepted" -> Some(ev.actions)
      [] state.tag = "Dragging" -> before
      [] OTHER -> None

\* history: the drags begun since the last press, after a step from the state
\* `from` to the state `to`
DragsAfter(from, to, before) ==
    CASE from = "None" /\ to = "Pressed" -> 0
      [] from = "Pressed" /\ to = "Dragging" -> before + 1
      [] OTHER -> before

\* the tile handles one event
SrcOnEvent(ev, path) ==
    /\ dragging_state' = SourceOnEvent(dragging_state, ev, path).state
    /\ srcPublished' = SourceOnEvent(dragging_state, ev, path).published
    /\ accepted' = AcceptedAfter(dragging_state, ev, accepted)
    /\ srcEvent' = [ev EXCEPT !.tick = 1 - srcEvent.tick]
    /\ drags' = DragsAfter(dragging_state.tag,
                           SourceOnEvent(dragging_state, ev, path).state.tag, drags)

\* the tile alone, for the entry TextEntry: its published callbacks are not delivered
InitSource ==
    /\ overflow_checks = FALSE
    /\ panicked = FALSE
    /\ groups = AppGroups
    /\ lastOp = NoOp
    /\ shown = <<>>
    /\ InitRest

TileEvent(ev) ==
    /\ SrcOnEvent(ev, "text")
    /\ UNCHANGED <<cfgVars, dstVars, loadVars, appVars, panelVars, queue>>

NextSource == \E ev \in SrcEvents : TileEvent([tick |-> 0] @@ ev)

SpecSource == InitSource /\ [][NextSource]_vars

----------------------------------------------------------------------------
(* The drag source inside the application: the first tile of the displayed
   list, its callbacks wired to StartDrag, FinishDrag and CancelDrag *)

\* the message a published callback of tile i becomes. The tile's on_finish
\* takes the tile's copy flag; the view of app.rs hands the tile the fixed
\* message FinishDrag(false): `fixed` says which of the two is built. A
\* FinishDrag message carries, as history, the action set accepted last.
Wire(callback, i, acc, fixed) ==
    CASE callback.type = "on_create_dnd_source" -> [type |-> "StartDrag", i |-> i]
      [] callback.type = "on_dnd_command_produced" -> [type |-> "DndCommand"]
      [] callback.type = "on_finish" ->
            [type |-> "FinishDrag", copy |-> IF fixed THEN FALSE ELSE callback.copy,
             accepted |-> acc]
      [] callback.type = "on_cancel" -> [type |-> "CancelDrag"]

\* the pointer positions the tile inside the application sees
DragCursors ==
    {Some([x |-> 0, y |-> 0]), Some([x |-> MaxCoord, y |-> MaxCoord]), None}

DragEvents ==
    [type : {"Pressed", "Moved", "Released"}, cursor : DragCursors]
    \cup {[type |-> "DndFinished"], [type |-> "Cancelled"]}
    \cup [type : {"DndActionAccepted"}, actions : DndActions]

\* the application showing one of its groups, the list computed and delivered
InitDrag ==
    /\ overflow_checks \in BOOLEAN
    /\ panicked = FALSE
    /\ groups = AppGroups
    /\ lastOp = NoOp
    /\ shown = <<>>
    /\ dragging_state = [tag |-> "None"]
    /\ accepted = None
    /\ srcEvent = [type |-> "none", tick |-> 0]
    /\ srcPublished = <<>>
    /\ drags = 0
    /\ queue = <<>>
    /\ dnd_offer = <<>>
    /\ offerPhase = [phase |-> "none", offer |-> 0, mime_types |-> <<>>]
    /\ offerOf = <<>>
    /\ dstEvent = [type |-> "none"]
    /\ dstPublished = <<>>
    /\ search_value = <<>>
    /\ cur_group \in 0..Len(groups)
    /\ entry_path_input = SortByName(filtered(groups, cur_group, <<>>, AllEntries))
    /\ shownInput = Some(<<>>)
    /\ dnd_icon = None
    /\ dragged = None
    /\ all_entries = AllEntries
    /\ duplicates = CollectDuplicates(AllEntries)
    /\ offer_group = None
    /\ stored = Stored(groups)
    /\ waiting_for_filtered = FALSE
    /\ inflight = <<>>
    /\ dispatched = <<>>
    /\ lastMsg = [type |-> "none"]
    /\ changes = 0
    /\ PanelDefault(TRUE)

\* the first tile handles an event; what it publishes waits for update()
DragTileEvent(ev) ==
    /\ ~panicked
    /\ entry_path_input # <<>>
    /\ Len(queue) + 2 <= MaxQueue
    /\ SrcOnEvent(ev, entry_path_input[1].id)
    /\ \E fixed \in BOOLEAN :
        queue' = queue \o [k \in 1..Len(srcPublished') |->
                              Wire(srcPublished'[k], 0, accepted, fixed)]
    /\ UNCHANGED <<cfgVars, dstVars, loadVars, appVars, panelVars>>

\* update() takes the next published message
Takes(type) ==
    /\ ~panicked
    /\ queue # <<>>
    /\ Head(queue).type = type
    /\ queue' = Tail(queue)

dragIdle == UNCHANGED <<overflow_checks, lastOp, shown, srcVars, loadVars, dstVars, panelVars, changes>>

HandleStartDrag ==
    /\ Takes("StartDrag")
    /\ UpdateStartDrag(Head(queue).i)
    /\ dragIdle

HandleFinishDrag ==
    /\ Takes("FinishDrag")
    /\ UpdateFinishDrag(Head(queue).copy)
    /\ dragIdle

HandleCancelDrag ==
    /\ Takes("CancelDrag")
    /\ UpdateCancelDrag
    /\ dragIdle

\* the StartDnd command is handed to the runtime; the application state is untouched
HandleDndCommand ==
    /\ Takes("DndCommand")
    /\ UNCHANGED <<cfgVars, srcVars, loadVars, dstVars, appVars, panelVars>>

\* a recomputation task finishes and its result is handled
HandleFilterApps(k) ==
    /\ ~panicked
    /\ UpdateFilterApps(k)
    /\ UNCHANGED queue
    /\ dragIdle

NextDrag ==
    \/ \E ev \in DragEvents : DragTileEvent([tick |-> 0] @@ ev)
    \/ HandleStartDrag
    \/ HandleFinishDrag
    \/ HandleCancelDrag
    \/ HandleDndCommand
    \/ \E k \in 1..Len(inflight) : HandleFilterApps(k)

SpecDrag == InitDrag /\ [][NextDrag]_vars

----------------------------------------------------------------------------
(* The drop targets: one GroupButton per group, Home first *)

MIME_TYPE == "text/uri-list"

\* the buttons: one per element of config.groups()
Targets == 0..Len(AppGroups)

\* layout.bounds() of button i: the buttons sit side by side in a row
GroupBounds(i) == [x |-> i * TileSize, y |-> 0, width |-> TileSize, height |-> TileSize]

\* the desktop files on disk, by the path the payload names
DesktopFiles == {TextEntry, TermEntry, CalcEntry, HiddenEntry}

\* DesktopEntryData::try_from(path): the file must exist and have Exec and Icon
TryFromPath(path) ==
    IF \E e \in DesktopFiles : e.id = path /\ e.exec /\ e.icon
    THEN Some(CHOOSE e \in DesktopFiles : e.id = path)
    ELSE None

\* std::str::from_utf8(data.as_bytes()).ok()
FromUtf8(data) == IF data.kind = "bytes" THEN None ELSE Some(data)

\* url::Url::from_str(s).ok()
UrlFromStr(s) == IF s.kind = "url" THEN Some(s) ELSE None

\* url.to_file_path().ok()
ToFilePath(url) == IF url.scheme = "file" THEN Some(url.path) ELSE None

\* the chain UTF-8 -> URL -> file path -> desktop entry, each step and_then the next
DecodePayload(data) ==
    LET s == FromUtf8(data)
        url == IF s = None THEN None ELSE UrlFromStr(s[1])
        p == IF url = None THEN None ELSE ToFilePath(url[1])
    IN  IF p = None THEN None ELSE TryFromPath(p[1])

\* url::Url::from_file_path(path).ok(): the scan yields absolute paths, which
\* all convert
UrlFromFilePath(path) == Some([kind |-> "url", scheme |-> "file", path |-> path])

\* AppletString::from_mime_type: the bytes of the file URL of the path for
\* text/uri-list, nothing for any other type
from_mime_type(path, mime_type) ==
    IF mime_type = MIME_TYPE THEN UrlFromFilePath(path) ELSE None

AcceptsMime_Any(mime_type) == TRUE

\* mime_type.as_str() == MIME_TYPE
AcceptsMime(mime_type) == mime_type = MIME_TYPE

HasMime_Any(mime_types) == TRUE

\* mime_types.iter().any(|m| m.as_str() == MIME_TYPE)
HasMime(mime_types) == \E k \in 1..Len(mime_types) : mime_types[k] = MIME_TYPE

Command(action) == [type |-> "on_dnd_command_produced", action |-> action]

SetActionsMove == [type |-> "on_dnd_command_produced", action |-> "SetActions",
                   preferred |-> "Move", accepted |-> "Move"]

AcceptCommand(mime) == [type |-> "on_dnd_command_produced", action |-> "Accept", mime |-> mime]

RequestDndData == [type |-> "on_dnd_command_produced", action |-> "RequestDndData",
                   mime |-> MIME_TYPE]

Outside(mime_types, action) ==
    [tag |-> "OutsideWidget", mime_types |-> mime_types, action |-> action]

Handling(mime_types, action) ==
    [tag |-> "HandlingOffer", mime_types |-> mime_types, action |-> action]

\* None or OutsideWidget: the offer comes over the button
StartHandling(mime_types) ==
    [state |-> Handling(mime_types, {}),
     published |-> <<SetActionsMove, AcceptCommand(Some(MIME_TYPE)), [type |-> "on_offer"]>>]

HandlingMotionOutside_Stays(state) == [state |-> state, published |-> <<>>]

\* HandlingOffer, the offer moves off the button
HandlingMotionOutside(state) ==
    [state |-> Outside(state.mime_types, {}),
     published |-> <<[type |-> "on_cancel"], AcceptCommand(None)>>]

DroppedOnData_KeepsUnusable(ev) ==
    IF AcceptsMime(ev.mime_type) /\ DecodePayload(ev.data) # None
    THEN [state |-> [tag |-> "None"],
          published |-> <<[type |-> "on_finish", data |-> DecodePayload(ev.data)[1]],
                          Command("DndFinished")>>]
    ELSE [state |-> [tag |-> "Dropped"], published |-> <<>>]

DroppedOnData_CommandFirst(ev) ==
    [state |-> [tag |-> "None"],
     published |->
        IF AcceptsMime(ev.mime_type) /\ DecodePayload(ev.data) # None
        THEN <<Command("DndFinished"),
               [type |-> "on_finish", data |-> DecodePayload(ev.data)[1]]>>
        ELSE <<>>]

\* Dropped, the data arrives
DroppedOnData(ev) ==
    [state |-> [tag |-> "None"],
     published |->
        IF AcceptsMime(ev.mime_type) /\ DecodePayload(ev.data) # None
        THEN <<[type |-> "on_finish", data |-> DecodePayload(ev.data)[1]],
               Command("DndFinished")>>
        ELSE <<>>]

\* GroupButton::on_event, the match on state.dnd_offer: the state afterwards and
\* the callbacks published, for a button with the given bounds
TargetOnEvent(state, ev, bounds) ==
    CASE state.tag = "None" ->
            CASE ev.type = "SourceActions" ->
                    [state |-> Outside(<<>>, ev.actions), published |-> <<>>]
              [] ev.type = "Enter" ->
                    IF HasMime(ev.mime_types)
                    THEN IF RectContains(bounds, ev.point)
                         THEN StartHandling(ev.mime_types)
                         ELSE [state |-> Outside(ev.mime_types, {}), published |-> <<>>]
                    ELSE [state |-> state, published |-> <<>>]
              [] OTHER -> [state |-> state, published |-> <<>>]
      [] state.tag = "OutsideWidget" ->
            CASE ev.type = "SourceActions" ->
                    [state |-> Outside(state.mime_types, ev.actions), published |-> <<>>]
              [] ev.type = "Motion" ->
                    IF RectContains(bounds, ev.point)
                    THEN StartHandling(state.mime_types)
                    ELSE [state |-> Outside(state.mime_types, {}), published |-> <<>>]
              [] ev.type \in {"DropPerformed", "Leave"} ->
                    [state |-> [tag |-> "None"], published |-> <<>>]
              [] OTHER -> [state |-> state, published |-> <<>>]
      [] state.tag = "HandlingOffer" ->
            CASE ev.type = "Motion" ->
                    IF RectContains(bounds, ev.point)
                    THEN [state |-> Handling(state.mime_types, {}),
                          published |-> <<SetActionsMove>>]
                    ELSE HandlingMotionOutside(state)
              [] ev.type = "Leave" ->
                    [state |-> [tag |-> "None"], published |-> <<[type |-> "on_cancel"]>>]
              [] ev.type = "SourceActions" ->
                    [state |-> Handling(state.mime_types, ev.actions),
                     published |-> <<SetActionsMove>>]
              [] ev.type = "DropPerformed" ->
                    [state |-> [tag |-> "Dropped"],
                     published |-> <<SetActionsMove, AcceptCommand(Some(MIME_TYPE)),
                                     RequestDndData>>]
              [] OTHER -> [state |-> state, published |-> <<>>]
      [] state.tag = "Dropped" ->
            CASE ev.type = "DndData" -> DroppedOnData(ev)
              [] ev.type = "Leave" ->
                    [state |-> [tag |-> "None"], published |-> <<[type |-> "on_cancel"]>>]
              [] OTHER -> [state |-> state, published |-> <<>>]

\* the message a published callback of button i becomes
WireTarget(callback, i) ==
    CASE callback.type = "on_offer" -> [type |-> "StartDndOffer", i |-> i]
      [] callback.type = "on_cancel" -> [type |-> "LeaveDndOffer", i |-> i]
      [] callback.type = "on_finish" ->
            [type |-> "FinishDndOffer", i |-> i, entry |-> Some(callback.data)]

IsCommand(callback) == callback.type = "on_dnd_command_produced"

\* the messages of buttons 0..n, in the order the buttons process the event
RECURSIVE TargetMessages(_, _)
TargetMessages(pub, n) ==
    IF n < 0 THEN <<>>
    ELSE LET mine == SelectSeq(pub[n], LAMBDA c : ~IsCommand(c))
         IN  TargetMessages(pub, n - 1) \o [k \in 1..Len(mine) |-> WireTarget(mine[k], n)]

\* Message::StartDndOffer(i)
UpdateStartDndOffer(i) ==
    /\ offer_group' = Some(i)
    /\ lastMsg' = [type |-> "StartDndOffer", i |-> i]
    /\ SetFilterState(NoFilterApps)
    /\ UNCHANGED <<search_value, cur_group, entry_path_input, shownInput, dnd_icon, dragged, stored,
                   groups, panicked>>

\* Message::FinishDndOffer(i, entry)
UpdateFinishDndOffer(i, entry) ==
    /\ offer_group' = None
    /\ lastMsg' = [type |-> "FinishDndOffer", i |-> i, entry |-> entry]
    /\ SetFilterState(NoFilterApps)
    /\ IF entry = None
       THEN UNCHANGED <<groups, panicked, stored>>
       ELSE IF Sub1Panics(overflow_checks, i)
       THEN /\ panicked' = TRUE
            /\ UNCHANGED <<groups, stored>>
       ELSE /\ groups' = add_entry(groups, i, entry[1].id)
            /\ WriteEntry(groups')
            /\ UNCHANGED panicked
    /\ UNCHANGED <<search_value, cur_group, entry_path_input, shownInput, dnd_icon, dragged>>

LeaveOffer_Always(og, i) == None

\* self.offer_group.filter(|g| *g != i)
LeaveOffer(og, i) == IF og = Some(i) THEN None ELSE og

\* Message::LeaveDndOffer(i)
UpdateLeaveDndOffer(i) ==
    /\ offer_group' = LeaveOffer(offer_group, i)
    /\ lastMsg' = [type |-> "LeaveDndOffer", i |-> i]
    /\ SetFilterState(NoFilterApps)
    /\ UNCHANGED <<search_value, cur_group, entry_path_input, shownInput, dnd_icon, dragged, stored,
                   groups, panicked>>

\* where an offer can be: over a button's corner, or below the row
OfferPoints ==
    {[x |-> i * TileSize, y |-> 0] : i \in Targets} \cup {[x |-> 0, y |-> TileSize]}

OfferedMimes == {<<MIME_TYPE>>, <<"text/plain">>}

\* what a source can send: bytes that are not UTF-8, text that is not a URL,
\* a URL that is not a file, and file URLs
Payloads ==
    {[kind |-> "bytes"], [kind |-> "text"], [kind |-> "url", scheme |-> "https"]}
    \cup {[kind |-> "url", scheme |-> "file", path |-> f] : f \in {"text", "term", "missing"}}

Handles(state) == state.tag \in {"HandlingOffer", "Dropped"}

\* history: the mime types the offer advertised when it entered, none before it
\* entered and none once it has ended
AdvertisedAfter(ev, phase, before) ==
    CASE ev.type = "Enter" -> ev.mime_types
      [] phase \in {"none", "announced"} -> <<>>
      [] OTHER -> before

\* every button processes the event; what they publish waits for update()
TargetsOnEvent(ev, phase, offer) ==
    /\ ~panicked
    /\ dnd_offer' = [i \in Targets |-> TargetOnEvent(dnd_offer[i], ev, GroupBounds(i)).state]
    /\ dstPublished' =
            [i \in Targets |-> TargetOnEvent(dnd_offer[i], ev, GroupBounds(i)).published]
    /\ dstEvent' = ev
    /\ offerPhase' = [phase |-> phase, offer |-> offer,
                      mime_types |-> AdvertisedAfter(ev, phase, offerPhase.mime_types)]
    /\ offerOf' = [i \in Targets |->
                     IF ~Handles(dnd_offer'[i]) THEN 0
                     ELSE IF Handles(dnd_offer[i]) THEN offerOf[i] ELSE offer]
    /\ queue' = queue \o TargetMessages(dstPublished', Len(AppGroups))
    /\ Len(queue') <= MaxQueue
    /\ UNCHANGED <<cfgVars, srcVars, loadVars, appVars, panelVars>>

\* a new offer: the compositor announces the source's actions and enters the
\* surface, in either order
OfferSourceActions(actions) ==
    \/ /\ offerPhase.phase \in {"none", "dropped"}
       /\ offerPhase.offer < MaxOffers
       /\ TargetsOnEvent([type |-> "SourceActions", actions |-> actions],
                         "announced", offerPhase.offer + 1)
    \/ /\ offerPhase.phase = "entered"
       /\ TargetsOnEvent([type |-> "SourceActions", actions |-> actions],
                         "active", offerPhase.offer)

OfferEnter(point, mime_types) ==
    \/ /\ offerPhase.phase \in {"none", "dropped"}
       /\ offerPhase.offer < MaxOffers
       /\ TargetsOnEvent([type |-> "Enter", point |-> point, mime_types |-> mime_types],
                         "entered", offerPhase.offer + 1)
    \/ /\ offerPhase.phase = "announced"
       /\ TargetsOnEvent([type |-> "Enter", point |-> point, mime_types |-> mime_types],
                         "active", offerPhase.offer)

OfferMotion(point) ==
    /\ offerPhase.phase \in {"entered", "active"}
    /\ TargetsOnEvent([type |-> "Motion", point |-> point], offerPhase.phase, offerPhase.offer)

OfferLeave ==
    /\ offerPhase.phase \in {"entered", "active", "dropped"}
    /\ TargetsOnEvent([type |-> "Leave"], "none", offerPhase.offer)

OfferDropPerformed ==
    /\ offerPhase.phase \in {"entered", "active"}
    /\ TargetsOnEvent([type |-> "DropPerformed"], "dropped", offerPhase.offer)

\* the data of the dropped offer arrives
OfferDndData(mime_type, data) ==
    /\ offerPhase.phase = "dropped"
    /\ TargetsOnEvent([type |-> "DndData", mime_type |-> mime_type, data |-> data],
                      "none", offerPhase.offer)

targetIdle == UNCHANGED <<overflow_checks, lastOp, shown, srcVars, loadVars, dstVars, panelVars, changes>>

HandleStartDndOffer ==
    /\ Takes("StartDndOffer")
    /\ UpdateStartDndOffer(Head(queue).i)
    /\ targetIdle

HandleFinishDndOffer ==
    /\ Takes("FinishDndOffer")
    /\ UpdateFinishDndOffer(Head(queue).i, Head(queue).entry)
    /\ targetIdle

HandleLeaveDndOffer ==
    /\ Takes("LeaveDndOffer")
    /\ UpdateLeaveDndOffer(Head(queue).i)
    /\ targetIdle

\* the application with its group buttons, no offer yet
InitTarget ==
    /\ overflow_checks \in BOOLEAN
    /\ panicked = FALSE
    /\ groups = AppGroups
    /\ lastOp = NoOp
    /\ shown = <<>>
    /\ dragging_state = [tag |-> "None"]
    /\ accepted = None
    /\ srcEvent = [type |-> "none", tick |-> 0]
    /\ srcPublished = <<>>
    /\ drags = 0
    /\ queue = <<>>
    /\ dnd_offer = [i \in Targets |-> [tag |-> "None"]]
    /\ offerPhase = [phase |-> "none", offer |-> 0, mime_types |-> <<>>]
    /\ offerOf = [i \in Targets |-> 0]
    /\ dstEvent = [type |-> "none"]
    /\ dstPublished = [i \in Targets |-> <<>>]
    /\ search_value = <<>>
    /\ cur_group = 0
    /\ entry_path_input = SortByName(filtered(groups, 0, <<>>, AllEntries))
    /\ shownInput = Some(<<>>)
    /\ dnd_icon = None
    /\ dragged = None
    /\ all_entries = AllEntries
    /\ duplicates = CollectDuplicates(AllEntries)
    /\ offer_group = None
    /\ stored = Stored(groups)
    /\ waiting_for_filtered = FALSE
    /\ inflight = <<>>
    /\ dispatched = <<>>
    /\ lastMsg = [type |-> "none"]
    /\ changes = 0
    /\ PanelDefault(TRUE)

NextTarget ==
    \/ OfferSourceActions({"Copy", "Move"})
    \/ \E point \in OfferPoints, mime_types \in OfferedMimes : OfferEnter(point, mime_types)
    \/ \E point \in OfferPoints : OfferMotion(point)
    \/ OfferLeave
    \/ OfferDropPerformed
    \/ \E data \in Payloads : OfferDndData(MIME_TYPE, data)
    \* data of another type is never decoded: one payload, a usable one, stands for all
    \/ OfferDndData("text/plain", [kind |-> "url", scheme |-> "file", path |-> "text"])
    \/ HandleStartDndOffer
    \/ HandleFinishDndOffer
    \/ HandleLeaveDndOffer

SpecTarget == InitTarget /\ [][NextTarget]_vars

----------------------------------------------------------------------------
(* The panel: the main surface, its dialogs, the context menu and hide() *)

\* the user's actions in one run
MaxActions == 3

\* the surfaces a layer event names: the main window and a dialog
WINDOW_ID == "WINDOW_ID"
DELETE_GROUP_WINDOW_ID == "DELETE_GROUP_WINDOW_ID"
LayerIds == {WINDOW_ID, DELETE_GROUP_WINDOW_ID}

\* what the handlers below leave alone in the application
PanelKeeps(kept) ==
    /\ UNCHANGED kept
    /\ UNCHANGED <<entry_path_input, shownInput, offer_group>>
    /\ UNCHANGED panicked

hide_NoResend(q) ==
    IF dnd_icon # None
    THEN /\ dnd_icon' = None
         /\ queue' = q
         /\ UNCHANGED <<dragged, search_value, cur_group, panelVars>>
    ELSE /\ active_surface' = FALSE
         /\ new_group' = None
         /\ search_value' = <<>>
         /\ edit_name' = None
         /\ cur_group' = 0
         /\ menu' = None
         /\ group_to_delete' = None
         /\ queue' = q
         /\ UNCHANGED <<dnd_icon, dragged>>

hide_ResetsAtOnce(q) ==
    /\ active_surface' = FALSE
    /\ new_group' = None
    /\ search_value' = <<>>
    /\ edit_name' = None
    /\ cur_group' = 0
    /\ menu' = None
    /\ group_to_delete' = None
    /\ IF dnd_icon # None
       THEN /\ dnd_icon' = None
            /\ queue' = Append(q, [type |-> "Hide"])
            /\ UNCHANGED dragged
       ELSE /\ queue' = q
            /\ UNCHANGED <<dnd_icon, dragged>>

\* hide: whether the task it returns holds end_dnd()
HideEndsDnd == dnd_icon # None

\* CosmicAppLibrary::hide, q being the messages that wait: a drag that is under
\* way is ended and Message::Hide is sent again; otherwise the panel is reset
hide(q) ==
    IF dnd_icon # None
    THEN /\ dnd_icon' = None
         /\ queue' = Append(q, [type |-> "Hide"])
         /\ UNCHANGED <<dragged, search_value, cur_group, panelVars>>
    ELSE /\ active_surface' = FALSE
         /\ new_group' = None
         /\ search_value' = <<>>
         /\ edit_name' = None
         /\ cur_group' = 0
         /\ menu' = None
         /\ group_to_delete' = None
         /\ queue' = q
         /\ UNCHANGED <<dnd_icon, dragged>>

\* Message::Layer(LayerEvent::Unfocused, id)
UpdateLayerUnfocused(id, q) ==
    /\ lastMsg' = [type |-> "Layer", id |-> id, active_surface |-> active_surface,
                   menu |-> menu, new_group |-> new_group,
                   group_to_delete |-> group_to_delete]
    /\ IF /\ active_surface
          /\ id = WINDOW_ID
          /\ menu = None
          /\ new_group = None
          /\ group_to_delete = None
       THEN hide(q)
       ELSE /\ queue' = q
            /\ UNCHANGED <<dnd_icon, dragged, search_value, cur_group, panelVars>>
    /\ SetFilterState(NoFilterApps)
    /\ PanelKeeps(<<groups, stored>>)

\* Message::Hide
UpdateHide(q) ==
    /\ lastMsg' = [type |-> "Hide", end_dnd |-> HideEndsDnd]
    /\ hide(q)
    /\ SetFilterState(NoFilterApps)
    /\ PanelKeeps(<<groups, stored>>)

\* Message::Delete(group)
UpdateDelete(group) ==
    /\ group_to_delete' = Some(group)
    /\ lastMsg' = [type |-> "Delete"]
    /\ SetFilterState(NoFilterApps)
    /\ PanelKeeps(<<groups, stored, search_value, cur_group, dnd_icon, dragged>>)
    /\ UNCHANGED <<active_surface, menu, new_group, edit_name>>

\* Message::EditName(name) and Message::StartEditName(name)
UpdateEditName(type, name) ==
    /\ edit_name' = Some(name)
    /\ lastMsg' = [type |-> type]
    /\ SetFilterState(NoFilterApps)
    /\ PanelKeeps(<<groups, stored, search_value, cur_group, dnd_icon, dragged>>)
    /\ UNCHANGED <<active_surface, menu, new_group, group_to_delete>>

UpdateSubmitName_NoWrite ==
    /\ edit_name' = None
    /\ lastMsg' = [type |-> "SubmitName"]
    /\ SetFilterState(NoFilterApps)
    /\ IF edit_name # None /\ Sub1Panics(overflow_checks, cur_group)
       THEN panicked' = TRUE /\ UNCHANGED <<groups, stored>>
       ELSE /\ groups' = IF edit_name # None
                         THEN set_name(groups, cur_group, edit_name[1]) ELSE groups
            /\ UNCHANGED <<stored, panicked>>
    /\ UNCHANGED <<entry_path_input, shownInput, offer_group>>
    /\ UNCHANGED <<search_value, cur_group, dnd_icon, dragged>>
    /\ UNCHANGED <<active_surface, menu, new_group, group_to_delete>>

\* Message::SubmitName
UpdateSubmitName ==
    /\ edit_name' = None
    /\ lastMsg' = [type |-> "SubmitName"]
    /\ SetFilterState(NoFilterApps)
    /\ IF edit_name # None /\ Sub1Panics(overflow_checks, cur_group)
       THEN panicked' = TRUE /\ UNCHANGED <<groups, stored>>
       ELSE /\ groups' = IF edit_name # None
                         THEN set_name(groups, cur_group, edit_name[1]) ELSE groups
            /\ WriteEntry(groups')
            /\ UNCHANGED panicked
    /\ UNCHANGED <<entry_path_input, shownInput, offer_group>>
    /\ UNCHANGED <<search_value, cur_group, dnd_icon, dragged>>
    /\ UNCHANGED <<active_surface, menu, new_group, group_to_delete>>

\* Message::StartNewGroup
UpdateStartNewGroup ==
    /\ new_group' = IF new_group # None THEN new_group ELSE Some("")
    /\ lastMsg' = [type |-> "StartNewGroup"]
    /\ SetFilterState(NoFilterApps)
    /\ PanelKeeps(<<groups, stored, search_value, cur_group, dnd_icon, dragged>>)
    /\ UNCHANGED <<active_surface, menu, group_to_delete, edit_name>>

\* Message::NewGroup(group_name)
UpdateNewGroup(group_name) ==
    /\ new_group' = Some(group_name)
    /\ lastMsg' = [type |-> "NewGroup"]
    /\ SetFilterState(NoFilterApps)
    /\ PanelKeeps(<<groups, stored, search_value, cur_group, dnd_icon, dragged>>)
    /\ UNCHANGED <<active_surface, menu, group_to_delete, edit_name>>

\* Message::SubmitNewGroup
UpdateSubmitNewGroup ==
    /\ new_group' = None
    /\ lastMsg' = [type |-> "SubmitNewGroup"]
    /\ groups' = IF new_group # None THEN add(groups, new_group[1]) ELSE groups
    /\ WriteEntry(groups')
    /\ SetFilterState(NoFilterApps)
    /\ PanelKeeps(<<search_value, cur_group, dnd_icon, dragged>>)
    /\ UNCHANGED <<active_surface, menu, group_to_delete, edit_name>>

\* Message::CancelNewGroup
UpdateCancelNewGroup ==
    /\ new_group' = None
    /\ lastMsg' = [type |-> "CancelNewGroup"]
    /\ SetFilterState(NoFilterApps)
    /\ PanelKeeps(<<groups, stored, search_value, cur_group, dnd_icon, dragged>>)
    /\ UNCHANGED <<active_surface, menu, group_to_delete, edit_name>>

\* Message::OpenContextMenu(rect, i)
UpdateOpenContextMenu(i) ==
    /\ menu' = IF menu # None THEN None ELSE Some(i)
    /\ lastMsg' = [type |-> "OpenContextMenu"]
    /\ SetFilterState(NoFilterApps)
    /\ PanelKeeps(<<groups, stored, search_value, cur_group, dnd_icon, dragged>>)
    /\ UNCHANGED <<active_surface, new_group, group_to_delete, edit_name>>

\* Message::CloseContextMenu
UpdateCloseContextMenu ==
    /\ menu' = None
    /\ lastMsg' = [type |-> "CloseContextMenu"]
    /\ SetFilterState(NoFilterApps)
    /\ PanelKeeps(<<groups, stored, search_value, cur_group, dnd_icon, dragged>>)
    /\ UNCHANGED <<active_surface, new_group, group_to_delete, edit_name>>

\* Message::SelectAction(MenuAction::Remove): the menu is cleared first, and
\* self.menu.take() reads what is left
UpdateSelectAction ==
    LET cleared == None
        taken == cleared
        known == taken # None /\ taken[1] < Len(entry_path_input)
    IN  /\ menu' = None
        /\ lastMsg' = [type |-> "SelectAction"]
        /\ IF ~known
           THEN /\ UNCHANGED <<groups, stored, panicked>>
                /\ SetFilterState(NoFilterApps)
           ELSE IF Sub1Panics(overflow_checks, cur_group)
           THEN /\ panicked' = TRUE
                /\ UNCHANGED <<groups, stored>>
                /\ SetFilterState(NoFilterApps)
           ELSE /\ groups' = remove_entry(groups, cur_group,
                                          entry_path_input[taken[1] + 1].id)
                /\ WriteEntry(groups')
                /\ SetFilterState(filter_apps(waiting_for_filtered, inflight, groups',
                                              cur_group, search_value))
                /\ UNCHANGED panicked
        /\ UNCHANGED <<entry_path_input, shownInput, offer_group>>
        /\ UNCHANGED <<search_value, cur_group, dnd_icon, dragged>>
        /\ UNCHANGED <<active_surface, new_group, group_to_delete, edit_name>>

GroupAfterDelete_Kept == cur_group

\* ConfirmDelete: self.cur_group = 0
GroupAfterDelete == 0

\* Message::ConfirmDelete
UpdateConfirmDelete ==
    /\ group_to_delete' = None
    /\ lastMsg' = [type |-> "ConfirmDelete"]
    /\ IF group_to_delete = None
       THEN /\ UNCHANGED <<groups, stored, panicked, cur_group>>
            /\ SetFilterState(NoFilterApps)
       ELSE IF Sub1Panics(overflow_checks, group_to_delete[1])
       THEN /\ panicked' = TRUE
            /\ UNCHANGED <<groups, stored, cur_group>>
            /\ SetFilterState(NoFilterApps)
       ELSE /\ groups' = remove(groups, group_to_delete[1])
            /\ WriteEntry(groups')
            /\ cur_group' = GroupAfterDelete
            /\ SetFilterState(filter_apps(waiting_for_filtered, inflight, groups',
                                          GroupAfterDelete, search_value))
            /\ UNCHANGED panicked
    /\ UNCHANGED <<entry_path_input, shownInput, offer_group>>
    /\ UNCHANGED <<search_value, dnd_icon, dragged>>
    /\ UNCHANGED <<active_surface, menu, new_group, edit_name>>

\* Message::CancelDelete
UpdateCancelDelete ==
    /\ group_to_delete' = None
    /\ lastMsg' = [type |-> "CancelDelete"]
    /\ SetFilterState(NoFilterApps)
    /\ PanelKeeps(<<groups, stored, search_value, cur_group, dnd_icon, dragged>>)
    /\ UNCHANGED <<active_surface, menu, new_group, edit_name>>

\* the panel is open on some group, with that group's list displayed
InitPanel ==
    /\ overflow_checks \in BOOLEAN
    /\ panicked = FALSE
    /\ groups \in {SubSeq(AppGroups, 1, n) : n \in 1..Len(AppGroups)}
    /\ lastOp = NoOp
    /\ shown = <<>>
    /\ dragging_state = [tag |-> "None"]
    /\ accepted = None
    /\ srcEvent = [type |-> "none", tick |-> 0]
    /\ srcPublished = <<>>
    /\ drags = 0
    /\ queue = <<>>
    /\ dnd_offer = <<>>
    /\ offerPhase = [phase |-> "none", offer |-> 0, mime_types |-> <<>>]
    /\ offerOf = <<>>
    /\ dstEvent = [type |-> "none"]
    /\ dstPublished = <<>>
    /\ search_value = <<>>
    /\ cur_group \in 0..Len(groups)
    /\ entry_path_input = filtered(groups, cur_group, <<>>, AllEntries)
    /\ shownInput = Some(<<>>)
    /\ dnd_icon = None
    /\ dragged = None
    /\ all_entries = AllEntries
    /\ duplicates = CollectDuplicates(AllEntries)
    /\ offer_group = None
    /\ stored = Stored(groups)
    /\ waiting_for_filtered = FALSE
    /\ inflight = <<>>
    /\ dispatched = <<>>
    /\ lastMsg = [type |-> "none"]
    /\ changes = MaxActions
    /\ PanelDefault(TRUE)

panelIdle == UNCHANGED <<overflow_checks, lastOp, shown, srcVars, loadVars, dstVars>>

\* the user does something on a surface that is shown
UserActs ==
    /\ ~panicked
    /\ active_surface
    /\ changes > 0
    /\ changes' = changes - 1
    /\ panelIdle

\* the compositor or a finished task sends a message
Arrives ==
    /\ ~panicked
    /\ UNCHANGED changes
    /\ panelIdle

\* the Message::Hide that hide() sent again is handled
PanelHideAgain ==
    /\ Arrives
    /\ queue # <<>>
    /\ Head(queue).type = "Hide"
    /\ UpdateHide(Tail(queue))

\* a recomputation task finishes and its result is handled
PanelFilterApps(k) ==
    /\ Arrives
    /\ UpdateFilterApps(k)
    /\ UNCHANGED <<panelVars, queue>>

\* the messages update() receives, each with the condition under which
\* view_window() or the subscription produces it
NextPanel ==
    \* the main window or a dialog loses the focus
    \/ \E id \in LayerIds : Arrives /\ UpdateLayerUnfocused(id, queue)
    \/ PanelHideAgain
    \* the user presses Escape or clicks beside the list
    \/ UserActs /\ UpdateHide(queue)
    \* the search input is shown for Home only
    \/ \E value \in {S_of} :
            /\ UserActs
            /\ cur_group = 0
            /\ UpdateInputChanged(value)
            /\ UNCHANGED <<panelVars, queue>>
    \* the group buttons are enabled while no menu is open
    \/ \E i \in 0..Len(groups) :
            /\ UserActs
            /\ menu = None
            /\ UpdateSelectGroup(i)
            /\ UNCHANGED <<active_surface, menu, new_group, group_to_delete, queue>>
    \* the edit button is shown for user groups while no name is edited: it
    \* sends StartEditName(cur_group.name())
    \/ /\ UserActs
       /\ cur_group # 0 /\ cur_group <= Len(groups)
       /\ edit_name = None
       /\ UpdateEditName("StartEditName", CombinedGroups(groups)[cur_group + 1].name)
       /\ UNCHANGED queue
    \* the name field is shown for user groups while a name is edited
    \/ \E name \in GroupNames :
            /\ UserActs
            /\ cur_group # 0
            /\ edit_name # None
            /\ UpdateEditName("EditName", name)
            /\ UNCHANGED queue
    \/ /\ UserActs
       /\ cur_group # 0
       /\ edit_name # None
       /\ UpdateSubmitName
       /\ UNCHANGED queue
    \* the delete button is shown for user groups: Delete(self.cur_group)
    \/ /\ UserActs
       /\ cur_group # 0
       /\ UpdateDelete(cur_group)
       /\ UNCHANGED queue
    \* the buttons of the delete dialog
    \/ /\ UserActs
       /\ group_to_delete # None
       /\ UpdateConfirmDelete
       /\ UNCHANGED queue
    \/ /\ UserActs
       /\ group_to_delete # None
       /\ UpdateCancelDelete
       /\ UNCHANGED queue
    \* the button that adds a group, and the dialog it opens
    \/ /\ UserActs
       /\ UpdateStartNewGroup
       /\ UNCHANGED queue
    \/ \E group_name \in GroupNames :
            /\ UserActs
            /\ new_group # None
            /\ UpdateNewGroup(group_name)
            /\ UNCHANGED queue
    \/ /\ UserActs
       /\ new_group # None
       /\ Len(groups) < MaxGroups
       /\ UpdateSubmitNewGroup
       /\ UNCHANGED queue
    \/ /\ UserActs
       /\ new_group # None
       /\ UpdateCancelNewGroup
       /\ UNCHANGED queue
    \* a right click on the i-th tile
    \/ \E i \in 0..1 :
            /\ UserActs
            /\ i < Len(entry_path_input)
            /\ UpdateOpenContextMenu(i)
            /\ UNCHANGED queue
    \* a click on the tile whose menu is open, or beside the menu
    \/ /\ UserActs
       /\ menu # None
       /\ UpdateCloseContextMenu
       /\ UNCHANGED queue
    \* the Remove button of the menu
    \/ /\ UserActs
       /\ menu # None
       /\ UpdateSelectAction
       /\ UNCHANGED queue
    \* the tiles report drags while no menu is open
    \/ \E i \in 0..1 :
            /\ UserActs
            /\ menu = None
            /\ i < Len(entry_path_input)
            /\ UpdateStartDrag(i)
            /\ UNCHANGED <<panelVars, queue>>
    \/ /\ UserActs
       /\ menu = None
       /\ UpdateFinishDrag(FALSE)
       /\ UNCHANGED <<panelVars, queue>>
    \/ /\ UserActs
       /\ menu = None
       /\ UpdateCancelDrag
       /\ UNCHANGED <<panelVars, queue>>
    \* a desktop file is dropped on the i-th group button
    \/ \E i \in 0..Len(groups) :
            /\ UserActs
            /\ UpdateFinishDndOffer(i, Some(TextEntry))
            /\ UNCHANGED <<panelVars, queue>>
    \/ \E k \in DOMAIN inflight : PanelFilterApps(k)

SpecPanel == InitPanel /\ [][NextPanel]_vars

\* update() is called for every message the runtime holds, and every
\* recomputation task finishes
FairSpecPanel ==
    /\ SpecPanel
    /\ WF_vars(PanelHideAgain)
    /\ WF_vars(\E k \in DOMAIN inflight : PanelFilterApps(k))

----------------------------------------------------------------------------
(* Claims about the filter engine and its mutations, under SpecConfig *)

\* the last call was made on a user group with a Categories filter
OnCategoriesGroup ==
    /\ lastOp.i >= 1 /\ lastOp.i <= Len(groups)
    /\ groups[lastOp.i].filter.tag = "Categories"

\* C4: for a Categories group g whose categories match entry e, after
\* remove_entry(g, e.id) the call filtered(g, s, [e]) returns nothing, for the
\* empty search text and for every other one.
C4_RemovedEntryNotListed ==
    (/\ lastOp.op = "filtered"
     /\ lastOp.prev = "remove_entry"
     /\ Len(lastOp.entries) = 1
     /\ OnCategoriesGroup
     /\ \E k \in 1..Len(groups[lastOp.i].filter.categories) :
            CategoriesContain(lastOp.entries[1], groups[lastOp.i].filter.categories[k]))
    => shown = <<>>

\* C5: filtered(0, "", entries), the Home group with no search text, returns no
\* entry that matches the filter of a user group.
C5_HomeExcludesGrouped ==
    (lastOp.op = "filtered" /\ lastOp.i = 0 /\ lastOp.input = <<>>)
    => \A k \in 1..Len(shown) : \A g \in 1..Len(groups) : ~matches(groups[g], shown[k])

\* C9: add_entry(g, id) immediately followed by remove_entry(g, id) on a
\* Categories group leaves id in exclude and not in include, so the group is not
\* in a state where id is in neither list.
C9_AddThenRemove ==
    (/\ lastOp.op = "remove_entry"
     /\ lastOp.prev = "add_entry"
     /\ OnCategoriesGroup)
    => /\ lastOp.id \in Range(groups[lastOp.i].filter.exclude)
       /\ lastOp.id \notin Range(groups[lastOp.i].filter.include)
       /\ ~InNeither(groups, lastOp.i, lastOp.id)

\* C9's case: the round trip was made on the first group
C9_Witness ==
    /\ lastOp.op = "remove_entry"
    /\ lastOp.prev = "add_entry"
    /\ OnCategoriesGroup
    /\ lastOp.i = 1
    /\ lastOp.id = "calc"
    /\ groups[1].filter.exclude # <<>>

\* C10: add_entry(0, id) completes and pushes id into the exclude list of every
\* user group, after which the entry with that id matches no user group.
C10_HomeAddExcludesEverywhere ==
    (lastOp.op = "add_entry" /\ lastOp.i = 0)
    => /\ ~panicked
       /\ \A g \in 1..Len(groups) :
            groups[g].filter.tag = "Categories"
                => lastOp.id \in Range(groups[g].filter.exclude)
       /\ \A g \in 1..Len(groups) :
            \A e \in {TextEntry, CalcEntry} : e.id = lastOp.id => ~matches(groups[g], e)

\* how often id occurs in a list
Occurrences(list, id) == Cardinality({k \in 1..Len(list) : list[k] = id})

ContainsIgnoringCase(hay, needle) ==
    \E off \in 0..(Len(hay) - Len(needle)) :
        \A j \in 1..Len(needle) : LowerChar(hay[off + j]) = LowerChar(needle[j])

\* the search text narrows: the entry's name or its categories contain it
Narrows(s, e) ==
    \/ ContainsIgnoringCase(e.name, s)
    \/ e.categories # NoValue /\ ContainsIgnoringCase(e.categories, s)

\* C20: for a user group g, filtered(g, s, E) is filtered(g, "", E) restricted
\* to the entries whose name or categories contain s case-insensitively (all of
\* them when s is empty): search narrows and never widens.
C20_SearchOnlyNarrows ==
    (/\ lastOp.op = "filtered"
     /\ lastOp.i >= 1 /\ lastOp.i <= Len(groups))
    => shown = SelectSeq(filtered(groups, lastOp.i, <<>>, lastOp.entries),
                         LAMBDA e : lastOp.input = <<>> \/ Narrows(lastOp.input, e))

\* a lowercase search text kept an entry of the group whose categories hold it capitalised
C20_Witness ==
    /\ lastOp.op = "filtered"
    /\ lastOp.i = 1
    /\ lastOp.input = S_of
    /\ shown # <<>>
    /\ Len(lastOp.entries) > 1

\* the include and exclude lists of a Categories filter have no id in common
\* and hold no id twice
DisjointNoDuplicates(f) ==
    /\ Range(f.include) \cap Range(f.exclude) = {}
    /\ Cardinality(Range(f.include)) = Len(f.include)
    /\ Cardinality(Range(f.exclude)) = Len(f.exclude)

\* C37: an add_entry or remove_entry call on a user group leaves every other
\* group as it was; on a Categories group whose include and exclude lists are
\* disjoint and duplicate-free they still are afterwards, the id of the call is
\* in include and not in exclude after add_entry, in exclude and not in include
\* after remove_entry, and every other id is where it was
C37_ListsStayDisjoint ==
    [][(/\ lastOp'.op \in {"add_entry", "remove_entry"}
        /\ lastOp'.i \in 1..Len(groups)
        /\ ~panicked')
        => LET i == lastOp'.i
               id == lastOp'.id
               before == groups[i].filter
               after == groups'[i].filter
           IN  /\ Len(groups') = Len(groups)
               /\ \A g \in 1..Len(groups) : g # i => groups'[g] = groups[g]
               /\ before.tag = "Categories" =>
                    /\ after.tag = "Categories"
                    /\ DisjointNoDuplicates(before) => DisjointNoDuplicates(after)
                    /\ id \in Range(after.include) <=> lastOp'.op = "add_entry"
                    /\ id \in Range(after.exclude) <=> lastOp'.op = "remove_entry"
                    /\ \A x \in Ids \ {id} :
                            /\ x \in Range(after.include) <=> x \in Range(before.include)
                            /\ x \in Range(after.exclude) <=> x \in Range(before.exclude)
      ]_vars

\* C37's case: an id was added and then removed beside another id that is
\* included; the lists are disjoint and hold each id once
C37_Witness ==
    /\ lastOp.op = "remove_entry"
    /\ lastOp.prev = "add_entry"
    /\ lastOp.i = 1
    /\ lastOp.id = "calc"
    /\ groups[1].filter.include = <<"text">>
    /\ groups[1].filter.exclude = <<"calc">>

\* the callbacks a button in Dropped publishes when the payload the drag source
\* serialized for this entry arrives as text/uri-list
PublishedOnDrop(e) ==
    LET payload == from_mime_type(e.path[1], MIME_TYPE)
    IN  IF payload = None THEN <<>>
        ELSE DroppedOnData([type |-> "DndData", mime_type |-> MIME_TYPE,
                            data |-> payload[1]]).published

\* C39: for every entry filtered() returned, with or without an Icon key, the
\* payload the drag source serializes for text/uri-list from the entry's path
\* decodes at the drop target into a desktop entry with the same id, so a
\* button in Dropped publishes on_finish for that entry; for any other mime
\* type the source yields no payload
C39_ListedEntryRoundTrips ==
    \A k \in 1..Len(shown) :
        LET e == shown[k]
            payload == from_mime_type(e.path[1], MIME_TYPE)
        IN  /\ from_mime_type(e.path[1], "text/plain") = None
            /\ payload # None
            /\ DecodePayload(payload[1]) # None
            /\ DecodePayload(payload[1])[1].id = e.id
            /\ \E m \in 1..Len(PublishedOnDrop(e)) :
                    /\ PublishedOnDrop(e)[m].type = "on_finish"
                    /\ PublishedOnDrop(e)[m].data.id = e.id

----------------------------------------------------------------------------
(* Claims about the recomputation of the displayed list, under SpecApp *)

\* C6: at most one recomputation task is in flight, and the flag says whether
\* one is; the flag is set by a step only if that step dispatched a task,
\* a step taken with the flag set dispatches a task only when it handles a
\* FilterApps result, and the flag is cleared only by handling a FilterApps result.
C6_OneTaskInFlight ==
    /\ [](/\ Len(inflight) <= 1
          /\ waiting_for_filtered <=> Len(inflight) = 1)
    /\ [][/\ (~waiting_for_filtered /\ waiting_for_filtered') => Len(dispatched') = 1
          /\ (waiting_for_filtered /\ lastMsg'.type # "FilterApps") => dispatched' = <<>>
          /\ (waiting_for_filtered /\ ~waiting_for_filtered') => lastMsg'.type = "FilterApps"
          /\ Len(dispatched') = 1 => (waiting_for_filtered' /\ dispatched'[1] \in Range(inflight'))
         ]_vars

\* C6's case: a recompute request arrived while a task was in flight and was dropped
C6_Witness ==
    /\ waiting_for_filtered
    /\ Len(inflight) = 1
    /\ lastMsg.type = "InputChanged"
    /\ dispatched = <<>>
    /\ inflight[1].input # search_value

\* a task is in flight that was dispatched for another search text than the current one
StaleTaskInFlight ==
    \E k \in 1..Len(inflight) : inflight[k].input # search_value

\* no task is in flight and the displayed list was computed from the current search text
Converged ==
    /\ ~waiting_for_filtered
    /\ inflight = <<>>
    /\ shownInput = Some(search_value)

\* C7: when a FilterApps result for another search text than the current one is
\* handled, a task for the current search text is dispatched in the same step;
\* and, every dispatched task delivering its result and the search text changing
\* only finitely often, a stale task in flight leads to a state with no task in
\* flight whose displayed list was computed from the current search text (a
\* process that panicked delivers nothing).
C7_ConvergesToLatestInput ==
    /\ []((lastMsg.type = "FilterApps" /\ shownInput # Some(search_value))
            => (/\ Len(dispatched) = 1
                /\ dispatched[1].input = search_value
                /\ waiting_for_filtered
                /\ dispatched[1] \in Range(inflight)))
    /\ (StaleTaskInFlight ~> (Converged \/ panicked))

\* C7's case: a result for an outdated search text was handled and a fresh task dispatched
C7_Witness ==
    /\ lastMsg.type = "FilterApps"
    /\ shownInput # Some(search_value)
    /\ Len(dispatched) = 1
    /\ dispatched[1].input = search_value

\* C19: the list a recomputation delivered is ordered by the lowercase of the
\* display names: for any two entries a before b, lowercase(a.name) <=
\* lowercase(b.name)
C19_OrderedIgnoringCase ==
    lastMsg.type = "FilterApps"
        => \A a, b \in 1..Len(entry_path_input) :
                a < b => StrLeq(ToLower(entry_path_input[a].name),
                                ToLower(entry_path_input[b].name))

\* C22: whenever no recomputation is in flight and no message is pending, the
\* displayed list is the filtered list of the current group and search text
\* under the current groups
C22_ShownIsCurrent ==
    (inflight = <<>> /\ queue = <<>> /\ ~panicked)
        => entry_path_input = FilterTask(groups, cur_group, search_value).apps

----------------------------------------------------------------------------
(* Claims about the drag source, under SpecSource *)

\* the step is the tile handling an event of the given type
TileHandles(type) == srcEvent'.tick # srcEvent.tick /\ srcEvent'.type = type

\* C3: in Pressed(p0), a move event with the cursor at p1 takes the tile to
\* Dragging iff (p1.x - p0.x)^2 + (p1.y - p0.y)^2 > 25; otherwise the state
\* stays Pressed(p0) and nothing is published.
C3_DragIffBeyondThreshold ==
    [][(dragging_state.tag = "Pressed" /\ TileHandles("Moved")) =>
        LET p0 == dragging_state.start
            p1 == PositionOrDefault(srcEvent'.cursor)
            d2 == (p1.x - p0.x) * (p1.x - p0.x) + (p1.y - p0.y) * (p1.y - p0.y)
        IN  IF d2 > 25
            THEN dragging_state'.tag = "Dragging"
            ELSE dragging_state' = dragging_state /\ srcPublished' = <<>>
      ]_vars

\* C3's case: a move to squared distance exactly 25 left the tile in Pressed
C3_Witness ==
    /\ dragging_state.tag = "Pressed"
    /\ srcEvent.type = "Moved"
    /\ DistanceSquared(dragging_state.start, PositionOrDefault(srcEvent.cursor)) = 25

\* a move beyond squared distance 25 started a drag
C3_WitnessDragging ==
    /\ dragging_state.tag = "Dragging"
    /\ srcEvent.type = "Moved"
    /\ srcPublished # <<>>

\* the callbacks that start a drag: on_create_dnd_source and the producer of
\* the StartDnd action
StartsDrag(m) == m.type \in {"on_create_dnd_source", StartDndAction("text").type}

\* C16: between two consecutive None -> Pressed transitions the tile goes from
\* Pressed to Dragging at most once; on_create_dnd_source and the StartDnd
\* producer are published in that step and in no other, once each, and
\* on_create_dnd_source first.
C16_OneDragPerPress ==
    /\ [](drags <= 1)
    /\ [][srcEvent'.tick # srcEvent.tick =>
            IF dragging_state.tag = "Pressed" /\ dragging_state'.tag = "Dragging"
            THEN srcPublished' = <<[type |-> "on_create_dnd_source"],
                                   StartDndAction("text")>>
            ELSE \A k \in DOMAIN srcPublished' : ~StartsDrag(srcPublished'[k])
         ]_vars

\* C16's case: the tile is dragging, the cursor moved again, and nothing more
\* was published
C16_Witness ==
    /\ dragging_state.tag = "Dragging"
    /\ drags = 1
    /\ srcEvent.type = "Moved"
    /\ srcPublished = <<>>

\* C25: a tile in Pressed that receives the release of the button or finger is
\* back in None, so that a later move cannot start a drag
C25_ReleaseEndsPress ==
    [][(dragging_state.tag = "Pressed" /\ TileHandles("Released"))
        => dragging_state'.tag = "None"]_vars

\* the callbacks that end a drag
EndsDrag(m) == m.type \in {"on_finish", "on_cancel"}

\* C31: a tile in Dragging publishes on_finish, alone, on DndFinished and
\* on_cancel, alone, on Cancelled, and is in None afterwards; on any other event
\* it publishes neither, and a pointer event changes nothing; a tile in None or
\* Pressed never publishes on_finish or on_cancel. A drag thus ends with
\* exactly one of the two.
C31_DragEndsOnce ==
    [][srcEvent'.tick # srcEvent.tick =>
        IF dragging_state.tag = "Dragging"
        THEN CASE srcEvent'.type = "DndFinished" ->
                    /\ Len(srcPublished') = 1
                    /\ srcPublished'[1].type = "on_finish"
                    /\ dragging_state'.tag = "None"
               [] srcEvent'.type = "Cancelled" ->
                    /\ srcPublished' = <<[type |-> "on_cancel"]>>
                    /\ dragging_state'.tag = "None"
               [] srcEvent'.type \in {"Pressed", "Moved", "Released"} ->
                    /\ srcPublished' = <<>>
                    /\ dragging_state' = dragging_state
               [] OTHER ->
                    /\ dragging_state'.tag = "Dragging"
                    /\ \A k \in DOMAIN srcPublished' : ~EndsDrag(srcPublished'[k])
        ELSE \A k \in DOMAIN srcPublished' : ~EndsDrag(srcPublished'[k])
      ]_vars

\* C31's case: a drag that a pointer event had left untouched ended with on_finish
C31_Witness ==
    /\ dragging_state.tag = "None"
    /\ drags = 1
    /\ srcEvent.type = "DndFinished"
    /\ Len(srcPublished) = 1
    /\ srcPublished[1].type = "on_finish"

----------------------------------------------------------------------------
(* Claims about a drag from start to finish, under SpecDrag *)

\* the step is update() handling the FinishDrag of a drag whose entry is known,
\* made from a user group
FinishDragHandled ==
    /\ queue # <<>>
    /\ Head(queue).type = "FinishDrag"
    /\ queue' = Tail(queue)
    /\ DraggedEntryKnown
    /\ cur_group >= 1 /\ cur_group <= Len(groups)

\* C1: when the drag finishes, the dragged entry is removed from its origin
\* (current) group iff the action set accepted last contained Move (none
\* accepted counts as not containing it); otherwise the groups are unchanged.
C1_RemovedIffMoveAccepted ==
    [][FinishDragHandled =>
        LET m == Head(queue)
            e == entry_path_input[dnd_icon[1] + 1]
        IN  IF m.accepted # None /\ "Move" \in m.accepted[1]
            THEN ~matches(groups'[cur_group], e)
            ELSE groups' = groups
      ]_vars

----------------------------------------------------------------------------
(* Claims about the drop targets, under SpecTarget *)

\* C2: the buttons have pairwise disjoint bounds and process the same offer
\* events in the same order; in every reachable state, at most one of them is
\* in HandlingOffer or Dropped for any one offer.
C2_OneTargetPerOffer ==
    \A i, j \in DOMAIN dnd_offer :
        (Handles(dnd_offer[i]) /\ Handles(dnd_offer[j]) /\ offerOf[i] = offerOf[j]) => i = j

\* an offer handled by one button has moved onto another
C2_Witness ==
    /\ DOMAIN dnd_offer = Targets
    /\ dstEvent.type = "Motion"
    /\ \E i, j \in Targets :
        /\ i # j
        /\ dnd_offer[i].tag = "HandlingOffer"
        /\ dnd_offer[j].tag = "OutsideWidget"
        /\ \E k \in 1..Len(dstPublished[j]) : dstPublished[j][k].type = "on_cancel"

\* the payload of a DndData event is unusable
Undecodable(ev) == ev.mime_type # MIME_TYPE \/ DecodePayload(ev.data) = None

\* C8: a button in Dropped that receives DndData with a mime type other than
\* text/uri-list, or with bytes that do not decode (UTF-8, URL, file path,
\* desktop entry), publishes nothing (no finish message, no error) and goes
\* back to None; and the groups change only when a finish message with an
\* entry is handled.
C8_UndecodableDropIgnored ==
    [][/\ \A i \in DOMAIN dnd_offer :
            (dnd_offer[i].tag = "Dropped" /\ dstEvent' # dstEvent
                /\ dstEvent'.type = "DndData" /\ Undecodable(dstEvent'))
            => /\ dnd_offer'[i] = [tag |-> "None"]
               /\ dstPublished'[i] = <<>>
               /\ queue' = queue
               /\ groups' = groups
               /\ panicked' = panicked
       /\ (groups' # groups \/ stored' # stored) =>
            /\ queue # <<>>
            /\ Head(queue).type = "FinishDndOffer"
            /\ Head(queue).entry # None
      ]_vars

\* an offer was dropped on a button (the application still has it as the offered
\* group), its data turned out unusable, and the button is idle with nothing published
C8_Witness ==
    /\ DOMAIN dnd_offer = Targets
    /\ dstEvent.type = "DndData"
    /\ Undecodable(dstEvent)
    /\ queue = <<>>
    /\ groups = AppGroups
    /\ \E i \in Targets : dnd_offer[i].tag = "None" /\ offer_group = Some(i)

C21_IdleIgnores ==
    [][\A i \in DOMAIN dnd_offer :
        (/\ dnd_offer[i].tag = "None"
         /\ offerPhase' # offerPhase \/ dstEvent' # dstEvent
         /\ \/ dstEvent'.type \in {"Motion", "Leave", "DropPerformed", "DndData"}
            \/ dstEvent'.type = "Enter" /\ MIME_TYPE \notin Range(dstEvent'.mime_types))
        => (dnd_offer'[i].tag = "None" /\ dstPublished'[i] = <<>>)
      ]_vars

\* C21's case: an offer of text/plain entered over a button, which stayed in None
C21_Witness ==
    /\ dstEvent.type = "Enter"
    /\ MIME_TYPE \notin Range(dstEvent.mime_types)
    /\ \E i \in DOMAIN dnd_offer :
            RectContains(GroupBounds(i), dstEvent.point) /\ dnd_offer[i].tag = "None"

\* C23: a button is in HandlingOffer only while the offer that entered
\* advertised text/uri-list, whichever of SourceActions and Enter came first
C23_HandlesOnlyUriLists ==
    \A i \in DOMAIN dnd_offer :
        dnd_offer[i].tag = "HandlingOffer" => MIME_TYPE \in Range(offerPhase.mime_types)

\* C27: while an offer that entered with text/uri-list is over the surface (no
\* Leave or DropPerformed yet), after every Enter or Motion event each button is
\* in HandlingOffer if the event's point lies inside its bounds and in
\* OutsideWidget otherwise; a SourceActions event leaves it in the state of the
\* two it was in.
C27_HandlingIffInside ==
    [][(/\ offerPhase' # offerPhase \/ dstEvent' # dstEvent
        /\ offerPhase'.phase \in {"entered", "active"}
        /\ MIME_TYPE \in Range(offerPhase'.mime_types))
        => \A i \in DOMAIN dnd_offer :
            /\ dstEvent'.type \in {"Enter", "Motion"} =>
                    dnd_offer'[i].tag = IF RectContains(GroupBounds(i), dstEvent'.point)
                                        THEN "HandlingOffer" ELSE "OutsideWidget"
            /\ (dstEvent'.type = "SourceActions"
                    /\ dnd_offer[i].tag \in {"HandlingOffer", "OutsideWidget"})
                => dnd_offer'[i].tag = dnd_offer[i].tag
      ]_vars

\* C28: a button in Dropped that receives DndData with mime text/uri-list and a
\* payload that decodes to a desktop entry publishes exactly the finish message
\* with that entry and then the DndFinished command, and goes back to None; and
\* a button publishes RequestDndData exactly once in the step that takes it
\* from HandlingOffer to Dropped, and in no other step.
C28_FinishThenDndFinished ==
    [][(offerPhase' # offerPhase \/ dstEvent' # dstEvent) =>
        \A i \in DOMAIN dnd_offer :
            /\ (/\ dnd_offer[i].tag = "Dropped"
                /\ dstEvent'.type = "DndData"
                /\ ~Undecodable(dstEvent'))
               => /\ Len(dstPublished'[i]) = 2
                  /\ dstPublished'[i][1].type = "on_finish"
                  /\ dstPublished'[i][1].data.id = dstEvent'.data.path
                  /\ dstPublished'[i][2] = Command("DndFinished")
                  /\ dnd_offer'[i].tag = "None"
            /\ Occurrences(dstPublished'[i], RequestDndData) =
                    IF dnd_offer[i].tag = "HandlingOffer" /\ dnd_offer'[i].tag = "Dropped"
                    THEN 1 ELSE 0
      ]_vars

\* C28's case: the data of a drop arrived and decoded, and the button that held
\* the drop published the finish message
C28_Witness ==
    /\ dstEvent.type = "DndData"
    /\ ~Undecodable(dstEvent)
    /\ \E i \in DOMAIN dnd_offer :
            /\ dstPublished[i] # <<>>
            /\ dstPublished[i][1].type = "on_finish"
            /\ dnd_offer[i].tag = "None"

\* C29: when a button that had published 'offer started' (it is in
\* HandlingOffer or Dropped) returns to None, it publishes exactly one 'offer
\* left' or 'drop finished' in that step; a button publishes neither unless it
\* was in HandlingOffer or Dropped; and when every button is back in None and
\* every message is handled, the application has no highlighted offer group.
C29_OfferStartedIsMatched ==
    /\ [][(offerPhase' # offerPhase \/ dstEvent' # dstEvent) =>
            \A i \in DOMAIN dnd_offer :
                LET ends == {k \in 1..Len(dstPublished'[i]) :
                                dstPublished'[i][k].type \in {"on_cancel", "on_finish"}}
                IN  /\ (Handles(dnd_offer[i]) /\ dnd_offer'[i].tag = "None")
                        => Cardinality(ends) = 1
                    /\ ends # {} => Handles(dnd_offer[i])
         ]_vars
    /\ []((queue = <<>> /\ \A i \in DOMAIN dnd_offer : dnd_offer[i].tag = "None")
            => offer_group = None)

\* C30: a button in Dropped goes to None on DndData, goes to None publishing
\* 'offer left' on Leave, and on every other event (the Enter, Motion,
\* SourceActions or DropPerformed of a later offer included) stays in Dropped
\* and publishes nothing.
C30_DroppedWaitsForDataOrLeave ==
    [][(offerPhase' # offerPhase \/ dstEvent' # dstEvent) =>
        \A i \in DOMAIN dnd_offer : dnd_offer[i].tag = "Dropped" =>
            CASE dstEvent'.type = "DndData" -> dnd_offer'[i].tag = "None"
              [] dstEvent'.type = "Leave" ->
                    /\ dnd_offer'[i].tag = "None"
                    /\ dstPublished'[i] = <<[type |-> "on_cancel"]>>
              [] OTHER -> dnd_offer'[i].tag = "Dropped" /\ dstPublished'[i] = <<>>
      ]_vars

\* C30's case: a later offer moves over a button that still waits for the data
\* of the drop before
C30_Witness ==
    /\ dstEvent.type = "Motion"
    /\ \E i \in DOMAIN dnd_offer :
            /\ dnd_offer[i].tag = "Dropped"
            /\ RectContains(GroupBounds(i), dstEvent.point)

\* C34: LeaveDndOffer(i) clears offer_group only when it is Some(i); so once
\* the messages of an event have all been handled, offer_group names the
\* button that handles the offer, whether the other button's LeaveDndOffer
\* came before its StartDndOffer or after it
C34_OfferGroupIsHandler ==
    /\ [](\A b \in Targets :
            (queue = <<>> /\ dnd_offer[b].tag = "HandlingOffer")
                => offer_group = Some(b))
    /\ [][(lastMsg'.type = "LeaveDndOffer" /\ Len(queue') < Len(queue))
            => offer_group' = IF offer_group = Some(lastMsg'.i) THEN None
                              ELSE offer_group]_vars

\* C34's case: one Motion took the offer from a button to the button before
\* it, whose StartDndOffer was handled first; the LeaveDndOffer of the button
\* that was left has been handled too
C34_Witness ==
    /\ dstEvent.type = "Motion"
    /\ queue = <<>>
    /\ lastMsg.type = "LeaveDndOffer"
    /\ offer_group # None
    /\ offer_group[1] < lastMsg.i
    /\ dnd_offer[offer_group[1]].tag = "HandlingOffer"

\* the same Motion in the other direction: LeaveDndOffer was handled first
C34_WitnessLeaveFirst ==
    /\ dstEvent.type = "Motion"
    /\ queue = <<>>
    /\ lastMsg.type = "StartDndOffer"
    /\ lastMsg.i > 0
    /\ offer_group = Some(lastMsg.i)
    /\ dnd_offer[lastMsg.i - 1].tag = "OutsideWidget"
    /\ dnd_offer[lastMsg.i].tag = "HandlingOffer"

----------------------------------------------------------------------------
(* Claims about structural edits and index arguments, under SpecEdit *)

IndexedOps == {"remove", "set_name", "add_entry", "remove_entry"}

\* C12: after any sequence of add, remove, set_name, add_entry and remove_entry
\* calls with any index, groups() is Home (filter None, its own name) followed by
\* exactly the user groups in order, and no call changes what is at index 0: a
\* call with index 0 leaves every group as it was.
C12_HomeAlwaysFirst ==
    /\ [](LET c == CombinedGroups(groups)
          IN  /\ Len(c) = Len(groups) + 1
              /\ c[1] = HOME
              /\ c[1].filter.tag = "None"
              /\ \A k \in 1..Len(groups) : c[k + 1] = groups[k])
    /\ [][/\ CombinedGroups(groups')[1] = CombinedGroups(groups)[1]
          /\ (lastOp'.op \in IndexedOps /\ lastOp'.i = 0) => groups' = groups
         ]_vars

\* a call with index 0 returned, with user groups present
C12_Witness ==
    /\ lastOp.op = "set_name"
    /\ lastOp.i = 0
    /\ ~panicked
    /\ Len(groups) = MaxGroups

\* C13: remove(0), set_name(0, name) and remove_entry(0, id) complete normally
\* (no panic from computing 0 - 1) and leave the user groups unchanged.
C13_IndexZeroGuarded ==
    [][(lastOp'.op \in {"remove", "set_name", "remove_entry"} /\ lastOp'.i = 0)
        => (~panicked' /\ groups' = groups)]_vars

\* C14: for an index past the end of the combined list, add_entry, remove_entry,
\* remove and set_name leave the configuration unchanged and do not panic.
C14_PastTheEndIsNoOp ==
    [][(lastOp'.op \in IndexedOps /\ lastOp'.i > Len(groups))
        => (groups' = groups /\ ~panicked')]_vars

\* a call past the end returned
C14_Witness ==
    /\ lastOp.op \in {"remove", "set_name"}
    /\ lastOp.i > Len(groups)
    /\ Len(groups) >= 1
    /\ ~panicked

----------------------------------------------------------------------------
(* Claims about the panel and its dialogs, under SpecPanel and FairSpecPanel *)

\* the last message was Unfocused for the main window, the library being active
UnfocusedMain ==
    /\ lastMsg.type = "Layer"
    /\ lastMsg.id = WINDOW_ID
    /\ lastMsg.active_surface

\* no context menu and no dialog was open when that message arrived
NothingOpen ==
    /\ lastMsg.menu = None
    /\ lastMsg.new_group = None
    /\ lastMsg.group_to_delete = None

\* the visible group state has its defaults
Reset ==
    /\ search_value = <<>>
    /\ edit_name = None
    /\ menu = None
    /\ cur_group = 0

\* C11 as stated: whenever the main window loses the focus while the library is
\* active, the application reaches a state with the search text empty, no name
\* being edited, no context menu and the current group 0 (or it has panicked)
C11_UnfocusedResets == UnfocusedMain ~> (Reset \/ panicked)

\* C11, amended: when the main window loses the focus while the library is
\* active and no context menu, new-group dialog or delete dialog is open, the
\* application reaches, after the Hide messages that hide() sends again, a state
\* with the search text empty, no name being edited, no context menu and the
\* current group 0 (or it has panicked)
C11_UnfocusedResetsUnlessOpen == (UnfocusedMain /\ NothingOpen) ~> (Reset \/ panicked)

\* the focus was lost during a drag on a user group: hide() ended the drag and
\* its Hide message waits, the group is still selected
C11_Witness ==
    /\ UnfocusedMain
    /\ NothingOpen
    /\ queue # <<>>
    /\ ~Reset

C26_RemoveActionRemoves ==
    [][(/\ lastMsg'.type = "SelectAction"
        /\ menu # None
        /\ menu[1] < Len(entry_path_input)
        /\ cur_group \in 1..Len(groups)
        /\ ~panicked')
        => /\ groups' = remove_entry(groups, cur_group,
                                     entry_path_input[menu[1] + 1].id)
           /\ stored'.attempted = groups'
           /\ waiting_for_filtered'
           /\ menu' = None]_vars

\* C24: the id FinishDrag passes to remove_entry is the id of the entry that
\* was at index i of the displayed list when StartDrag(i) was processed, and
\* the group it is removed from is the group that was current then
C24_RemovedIsDragged ==
    [][(/\ lastMsg'.type = "FinishDrag"
        /\ dnd_icon # None
        /\ dnd_icon' = None
        /\ lastMsg'.removed # NoValue)
        => dragged = Some([id |-> lastMsg'.removed, group |-> cur_group])]_vars

\* the panel as hide() leaves it when no drag is under way
Hidden ==
    /\ ~active_surface
    /\ Reset
    /\ new_group = None
    /\ group_to_delete = None

\* C32: Message::Hide handled during a drag requests end_dnd, clears dnd_icon
\* and sends Hide again, leaving the rest of the panel as it is; handled with
\* no drag it requests no end_dnd, sends nothing and resets the panel. A Hide
\* that ended a drag is thus followed by the reset (unless the process
\* panicked), and end_dnd is requested only for a drag that is under way,
\* which that step ends.
C32_HideEndsDragThenResets ==
    /\ [][lastMsg'.type = "Hide" =>
            IF dnd_icon # None
            THEN /\ lastMsg'.end_dnd
                 /\ dnd_icon' = None
                 /\ queue' # <<>>
                 /\ queue'[Len(queue')].type = "Hide"
                 /\ Len(queue') <= Len(queue) + 1
                 /\ UNCHANGED <<active_surface, search_value, cur_group, edit_name,
                                menu, new_group, group_to_delete>>
            ELSE /\ ~lastMsg'.end_dnd
                 /\ Len(queue') <= Len(queue)
                 /\ Hidden'
         ]_vars
    /\ ((lastMsg.type = "Hide" /\ lastMsg.end_dnd) ~> (Hidden \/ panicked))

\* C32's case: Hide arrived during a drag on a user group; the drag is ended,
\* the group is still selected, the surface still active, and Hide waits
C32_Witness ==
    /\ lastMsg.type = "Hide"
    /\ lastMsg.end_dnd
    /\ dnd_icon = None
    /\ active_surface
    /\ cur_group # 0
    /\ queue # <<>>
    /\ queue[Len(queue)].type = "Hide"

\* C35: a name is being edited only while a user group is current
C35_EditOnlyUserGroup == edit_name # None => cur_group # 0

\* C36: cur_group is a position of the combined group list, Home followed by
\* the user groups, whatever group was deleted or added and after hide()
C36_CurGroupIsValid == cur_group \in 0..Len(groups)

\* C36's case: of two user groups the first was deleted while it was current
C36_Witness ==
    /\ lastMsg.type = "ConfirmDelete"
    /\ Len(groups) = 1
    /\ groups[1].name = "second"
    /\ cur_group = 0
    /\ ~panicked

----------------------------------------------------------------------------
(* Claims about the scan, under SpecLoad *)

\* two entries share the normalized name or the id
SameNameOrId(a, b) == Normalized(a.name) = Normalized(b.name) \/ a.id = b.id

\* C38: after a load, an entry that has a path is in the duplicates map iff
\* its normalized name or its id equals that of the entry before it or after
\* it in the sorted list; and two entries with the same normalized name are
\* both in the map wherever they are in the list
C38_FlaggedIffRepeats ==
    lastOp.op = "load_apps" =>
        /\ \A k \in 1..Len(all_entries) :
                all_entries[k].path # None =>
                    (all_entries[k].path[1] \in duplicates
                        <=> \E j \in {k - 1, k + 1} \cap (1..Len(all_entries)) :
                                SameNameOrId(all_entries[j], all_entries[k]))
        /\ \A j, k \in 1..Len(all_entries) :
                (/\ j # k
                 /\ Normalized(all_entries[j].name) = Normalized(all_entries[k].name))
                    => PathOf(all_entries[k]) \subseteq duplicates

====
